---- MODULE Spec2Model ----
(***************************************************************************)
(* A model of the coordination core of AgentSynapse:                       *)
(*   - AgentOrchestrator._buildExecutionPlan and _executeParallelTasks     *)
(*     (agents/orchestrator/agentOrchestrator.py),                         *)
(*   - AgentEngine.execute (core/agentEngine.py),                          *)
(*   - MemoryManager.retrieveContext (memory/memoryManager.py).            *)
(* Each component has its own specification over the shared variables:     *)
(* Spec (orchestrator), SpecTurn (agent loop), SpecCtx (context assembly). *)
(***************************************************************************)
EXTENDS Integers, Sequences, FiniteSets, TLC

(***************************************************************************)
(* Bounds of the model.                                                    *)
(***************************************************************************)
\* largest number of subtasks of one decomposition
NumTasks == 4
\* largest number of dependency edges of one decomposition
MaxEdges == 2
\* settings.agent.maxParallelAgents (default 10), scaled to the task count
maxParallelAgents == 3

\* settings.agent.maxRecursionDepth (default 5), scaled
maxRecursionDepth == 2
\* settings.agent.maxTokenLimit (default 100000), scaled to the usage values
maxTokenLimit == 1
\* maxIterations of AgentEngine.execute (10 in the source), scaled
maxIterations == 2
\* largest total_tokens one model response reports
MaxUsage == 2
\* number of execution records (calls of AgentEngine.execute)
NumExecs == 2

\* largest maxTokens argument of retrieveContext
MaxBudget == 4
\* largest number of records the episodic and the semantic store return
MaxRecords == 2
\* register calls that may write the item of one version
MaxRegistrations == 2
\* async tasks submitted
NumAsyncTasks == 2
\* callers that resolve agents of one tenant
NumCallers == 2
\* items the agent table of the tenant may come to hold
MaxAgents == 3

TaskIds == 1..NumTasks
\* 0 is an id that names no subtask of the decomposition
UnknownId == 0
DepIds == TaskIds \cup {UnknownId}

VARIABLES
    \* ---- AgentOrchestrator ----
    tasks,         \* the ids of the decomposed tasks (1..n, in list order)
    deps,          \* TaskDecomposition.dependencies of every task
    opc,           \* position of orchestrate / _buildExecutionPlan / _executeParallelTasks
    remaining,     \* _buildExecutionPlan: remaining
    completed,     \* _buildExecutionPlan: completed
    waves,         \* _buildExecutionPlan: waves
    warned,        \* "circular_dependency_detected" was logged
    plan,          \* the returned plan: sequential and parallel buckets
    seqIdx,        \* index of the next task of plan.sequential
    tstate,        \* per task: idle | waiting | running | settled
    outcome,       \* per task: how its _executeTask coroutine ended
    results,       \* _executeParallelTasks: results
    taskStatus,    \* TaskDecomposition.status
    semaphore,     \* permits of the asyncio.Semaphore (-1: not created)
    modelOutput,   \* _decomposeTask: what the model's decomposition answer is like
    payload,       \* what orchestrate returned (kind "none": it has not returned)
    loopCalls      \* engine.execute calls of _executeSingleAgent and _synthesizeResults

VARIABLES
    \* ---- AgentEngine ----
    xpc,               \* per call of execute: its position
    depth,             \* per call: the depth argument
    execution,         \* per call: the AgentExecution record
    activeExecutions,  \* keys of AgentEngine._activeExecutions
    tools,             \* per call: names of the tools getToolsForAgent resolved
    messages,          \* per call: the working message list
    totalTokens,       \* per call: totalTokens
    iterations,        \* per call: iterations
    pending,           \* per call: tool calls of the current response not yet handled
    responses,         \* per call: the responses the model returned, in order
    modelCalls,        \* per call: number of invokeModel calls issued
    dispatched,        \* per call: number of toolExecutor.execute calls issued
    collabCalls,       \* per call: number of tool-registry and memory calls issued
    raisedExc,         \* per call: the exception that left execute
    conversation,      \* the session's conversation_history list
    episodic,          \* the episodic records storeInteraction wrote
    cancelled,         \* the calls for which cancelExecution returned True
    cancelResult       \* per id: what the last cancelExecution(id) returned

\* what cancelExecution keeps track of
cancelVars == <<cancelled, cancelResult>>

turnVars == <<xpc, depth, execution, activeExecutions, tools, messages, totalTokens,
              iterations, pending, responses, modelCalls, dispatched, collabCalls,
              raisedExc, conversation, episodic, cancelVars>>

VARIABLES
    \* ---- MemoryManager.retrieveContext ----
    cpc,               \* position of retrieveContext
    maxTokens,         \* the maxTokens argument
    context,           \* the context dict under construction
    recentEpisodic,    \* what episodicMemory.retrieveBySession returned
    semanticMemories   \* what semanticMemory.search returned

ctxVars == <<cpc, maxTokens, context, recentEpisodic, semanticMemories>>

\* the state of orchestrate around the planner and the executor
topVars == <<modelOutput, payload, loopCalls>>

orchVars == <<tasks, deps, opc, remaining, completed, waves, warned, plan, seqIdx,
              tstate, outcome, results, taskStatus, semaphore, topVars>>

VARIABLES
    \* ---- AgentRegistry (the agent-config table of one tenant) ----
    agentTable,        \* the items of the tenant's partition, in sort-key order
    resolvedAgent      \* per caller: the id of the agent it resolved (0: none)

agentVars == <<agentTable, resolvedAgent>>

VARIABLES
    \* ---- AsyncAgentExecutor (per submitted task) ----
    submitPc,          \* position of submitAsyncTask
    asyncQueue,        \* whether the task's message is in the SQS queue
    workerPc,          \* position of the worker's processAsyncTask
    asyncItem          \* the task's item in the sessions table

asyncVars == <<submitPc, asyncQueue, workerPc, asyncItem>>

VARIABLES
    \* ---- ToolRegistry and ToolVersioning (one tenant, one tool name) ----
    toolTable,         \* per version: absent | active | inactive (the item's isActive)
    versionCache,      \* ToolVersioning._tenantCache entry of the tenant and tool
    registrations,     \* per version: number of register calls that wrote the item
    lastCall,          \* the operation that returned last
    latestResult       \* what the last getLatestVersion returned

toolVars == <<toolTable, versionCache, registrations, lastCall, latestResult>>

\* the state of the stores and services outside the orchestrator and the engine
extVars == <<agentVars, asyncVars, toolVars>>

\* everything but the agent table, but the async tasks, but the tool versions
nonAgentVars == <<orchVars, turnVars, ctxVars, asyncVars, toolVars>>
nonAsyncVars == <<orchVars, turnVars, ctxVars, agentVars, toolVars>>
nonToolVars == <<orchVars, turnVars, ctxVars, agentVars, asyncVars>>

vars == <<orchVars, turnVars, ctxVars, extVars>>

(***************************************************************************)
(* Helpers                                                                 *)
(***************************************************************************)
Min(a, b) == IF a < b THEN a ELSE b

Range(s) == {s[i] : i \in 1..Len(s)}

\* every ordering of a finite set as a sequence (the iteration order of a
\* Python set of uuid strings is not determined by the program)
Orderings(S) ==
    {s \in [1..Cardinality(S) -> S] : \A i, j \in 1..Cardinality(S) : i # j => s[i] # s[j]}

RECURSIVE Flatten(_)
Flatten(ws) == IF ws = <<>> THEN <<>> ELSE Head(ws) \o Flatten(Tail(ws))

\* Python truthiness of Optional[str]
Truthy(text) == text \notin {"None", ""}

\* the dependency lists of a decomposition, from a set of edges
DepsOf(E) == [t \in TaskIds |-> {d \in DepIds : <<t, d>> \in E}]

\* TaskDecomposition.priority of the tasks of a decomposition: the first two
\* tasks of the list declare priority 1, the next two priority 2, and so on
Priority(t) == (t + 1) \div 2

\* the sets of at most MaxEdges dependency edges over n tasks; an edge <<t, d>>
\* says that task t names d in its dependencies (d = t and d = UnknownId included)
EdgeSets(n) ==
    {{f[i] : i \in 1..MaxEdges} \ {<<0, 0>>} :
        f \in [1..MaxEdges -> ((1..n) \X (0..n)) \cup {<<0, 0>>}]}

Absent == [kind |-> "absent", of |-> 0, status |-> "none"]
\* the dict _executeTask returns: the response and status of the task's own turn
TaskResult(t, st) == [kind |-> "result", of |-> t, status |-> st]
\* {"error": str(result)}
ErrorEntry(t) == [kind |-> "error", of |-> t, status |-> "none"]

(***************************************************************************)
(* _buildExecutionPlan                                                     *)
(***************************************************************************)
\* a readiness test that only asks whether the dependencies are known tasks
ReadyKnown(t) == deps[t] \subseteq tasks

\* a readiness test that skips the ids that name no task
ReadyIgnoringUnknown(t) == (deps[t] \cap tasks) \subseteq completed

\* all(dep in completed for dep in task.dependencies)
Ready(t) == deps[t] \subseteq completed

\* one pass of the while loop that finds a non-empty wave
PlanPass ==
    /\ opc = "planning"
    /\ remaining # {}
    /\ {t \in remaining : Ready(t)} # {}
    /\ \E currentWave \in Orderings({t \in remaining : Ready(t)}) :
          /\ waves' = Append(waves, currentWave)
          /\ remaining' = remaining \ Range(currentWave)
          /\ completed' = completed \cup Range(currentWave)
    /\ UNCHANGED <<extVars, turnVars, ctxVars, topVars>>
    /\ UNCHANGED <<tasks, deps, opc, warned, plan, seqIdx, tstate, outcome, results,
                   taskStatus, semaphore>>

\* a pass with an empty wave that logs the warning and goes on looping
PlanNoBreak ==
    /\ opc = "planning"
    /\ remaining # {}
    /\ {t \in remaining : Ready(t)} = {}
    /\ warned' = TRUE
    /\ UNCHANGED <<extVars, turnVars, ctxVars, topVars>>
    /\ UNCHANGED <<tasks, deps, opc, remaining, completed, waves, plan, seqIdx, tstate,
                   outcome, results, taskStatus, semaphore>>

\* a pass with an empty wave: log the warning and leave the loop
PlanBreak ==
    /\ opc = "planning"
    /\ remaining # {}
    /\ {t \in remaining : Ready(t)} = {}
    /\ warned' = TRUE
    /\ opc' = "classify"
    /\ UNCHANGED <<extVars, turnVars, ctxVars, topVars>>
    /\ UNCHANGED <<tasks, deps, remaining, completed, waves, plan, seqIdx, tstate,
                   outcome, results, taskStatus, semaphore>>

\* a classification that sends the tasks of every wave to plan["parallel"]
BucketAllParallel(ws, par) == IF par THEN Flatten(ws) ELSE <<>>

\* waves of more than one task go to plan["parallel"], the others to plan["sequential"]
Bucket(ws, par) ==
    Flatten([i \in 1..Len(ws) |->
                IF (Len(ws[i]) > 1) = par THEN ws[i] ELSE <<>>])

\* the loop over waves that fills the two buckets, and the return
PlanClassify ==
    /\ \/ opc = "planning" /\ remaining = {}
       \/ opc = "classify"
    /\ plan' = [sequential |-> Bucket(waves, FALSE), parallel |-> Bucket(waves, TRUE)]
    /\ opc' = "sequential"
    /\ UNCHANGED <<extVars, turnVars, ctxVars, topVars>>
    /\ UNCHANGED <<tasks, deps, remaining, completed, waves, warned, seqIdx, tstate,
                   outcome, results, taskStatus, semaphore>>

(***************************************************************************)
(* _executeParallelTasks                                                   *)
(***************************************************************************)
\* outcomes of engine.execute seen by _executeTask: a turn returned Completed,
\* a turn returned Failed (iteration ceiling), or an exception
TurnStatuses == {"completed", "failed"}

\* for task in executionPlan["sequential"]: await self._executeTask(task, ...)
SeqStart ==
    /\ opc = "sequential"
    /\ seqIdx <= Len(plan.sequential)
    /\ tstate[plan.sequential[seqIdx]] = "idle"
    /\ tstate' = [tstate EXCEPT ![plan.sequential[seqIdx]] = "running"]
    /\ UNCHANGED <<extVars, turnVars, ctxVars, topVars>>
    /\ UNCHANGED <<tasks, deps, opc, remaining, completed, waves, warned, plan, seqIdx,
                   outcome, results, taskStatus, semaphore>>

\* _executeTask returned: results[task.taskId] = result; task.status = COMPLETED
SeqReturn ==
    /\ opc = "sequential"
    /\ seqIdx <= Len(plan.sequential)
    /\ tstate[plan.sequential[seqIdx]] = "running"
    /\ \E st \in TurnStatuses :
          LET t == plan.sequential[seqIdx] IN
          /\ outcome' = [outcome EXCEPT ![t] = st]
          /\ results' = [results EXCEPT ![t] = TaskResult(t, st)]
    /\ tstate' = [tstate EXCEPT ![plan.sequential[seqIdx]] = "settled"]
    /\ taskStatus' = [taskStatus EXCEPT ![plan.sequential[seqIdx]] = "completed"]
    /\ seqIdx' = seqIdx + 1
    /\ UNCHANGED <<extVars, turnVars, ctxVars, topVars>>
    /\ UNCHANGED <<tasks, deps, opc, remaining, completed, waves, warned, plan, semaphore>>

\* engine.execute raised inside _executeTask: nothing catches it in the
\* sequential loop, so it leaves _executeParallelTasks and orchestrate
SeqRaise ==
    /\ opc = "sequential"
    /\ seqIdx <= Len(plan.sequential)
    /\ tstate[plan.sequential[seqIdx]] = "running"
    /\ outcome' = [outcome EXCEPT ![plan.sequential[seqIdx]] = "raised"]
    /\ tstate' = [tstate EXCEPT ![plan.sequential[seqIdx]] = "settled"]
    /\ opc' = "raised"
    /\ UNCHANGED <<extVars, turnVars, ctxVars, topVars>>
    /\ UNCHANGED <<tasks, deps, remaining, completed, waves, warned, plan, seqIdx,
                   results, taskStatus, semaphore>>

\* a limit that forgets the configured ceiling
ParallelLimitLen(parallelTasks) == Len(parallelTasks)

\* parallelLimit = min(len(parallelTasks), settings.agent.maxParallelAgents)
ParallelLimit(parallelTasks) == Min(Len(parallelTasks), maxParallelAgents)

\* the sequential loop is over: create the semaphore and the gathered coroutines
ParBegin ==
    /\ opc = "sequential"
    /\ seqIdx > Len(plan.sequential)
    /\ plan.parallel # <<>>
    /\ semaphore' = ParallelLimit(plan.parallel)
    /\ tstate' = [t \in TaskIds |->
                    IF t \in Range(plan.parallel) THEN "waiting" ELSE tstate[t]]
    /\ opc' = "parallel"
    /\ UNCHANGED <<extVars, turnVars, ctxVars, topVars>>
    /\ UNCHANGED <<tasks, deps, remaining, completed, waves, warned, plan, seqIdx,
                   outcome, results, taskStatus>>

\* if parallelTasks is empty the results are returned at once
ParSkip ==
    /\ opc = "sequential"
    /\ seqIdx > Len(plan.sequential)
    /\ plan.parallel = <<>>
    /\ opc' = "returned"
    /\ UNCHANGED <<extVars, turnVars, ctxVars, topVars>>
    /\ UNCHANGED <<tasks, deps, remaining, completed, waves, warned, plan, seqIdx,
                   tstate, outcome, results, taskStatus, semaphore>>

\* the first coroutine waiting on the semaphore (asyncio wakes waiters in order)
FirstWaiting ==
    LET idx == {i \in 1..Len(plan.parallel) : tstate[plan.parallel[i]] = "waiting"}
    IN  plan.parallel[CHOOSE i \in idx : \A j \in idx : i <= j]

\* async with semaphore: (entry) then self._executeTask starts
ParAcquire ==
    /\ opc = "parallel"
    /\ semaphore > 0
    /\ \E t \in Range(plan.parallel) : tstate[t] = "waiting"
    /\ tstate' = [tstate EXCEPT ![FirstWaiting] = "running"]
    /\ semaphore' = semaphore - 1
    /\ UNCHANGED <<extVars, turnVars, ctxVars, topVars>>
    /\ UNCHANGED <<tasks, deps, opc, remaining, completed, waves, warned, plan, seqIdx,
                   outcome, results, taskStatus>>

\* _executeTask returned inside executeWithSemaphore; the semaphore is released
ParReturn(t) ==
    /\ opc = "parallel"
    /\ tstate[t] = "running"
    /\ \E st \in TurnStatuses : outcome' = [outcome EXCEPT ![t] = st]
    /\ tstate' = [tstate EXCEPT ![t] = "settled"]
    /\ semaphore' = semaphore + 1
    /\ UNCHANGED <<extVars, turnVars, ctxVars, topVars>>
    /\ UNCHANGED <<tasks, deps, opc, remaining, completed, waves, warned, plan, seqIdx,
                   results, taskStatus>>

\* gather without return_exceptions: the first exception leaves the gather
PropagateExceptions == FALSE

\* whether gather keeps an exception as a result (return_exceptions=True)
ReturnExceptions == TRUE

\* a limiter whose slot is lost when the task it admitted raises
ParRaiseKeepsSlot(t) ==
    /\ opc = "parallel"
    /\ tstate[t] = "running"
    /\ outcome' = [outcome EXCEPT ![t] = "raised"]
    /\ tstate' = [tstate EXCEPT ![t] = "settled"]
    /\ UNCHANGED <<extVars, turnVars, ctxVars, topVars>>
    /\ UNCHANGED <<tasks, deps, opc, remaining, completed, waves, warned, plan, seqIdx,
                   results, taskStatus, semaphore>>

\* _executeTask raised inside executeWithSemaphore; the semaphore is released
\* and gather keeps the exception as that coroutine's result
ParRaise(t) ==
    /\ opc = "parallel"
    /\ tstate[t] = "running"
    /\ outcome' = [outcome EXCEPT ![t] = "raised"]
    /\ tstate' = [tstate EXCEPT ![t] = "settled"]
    /\ semaphore' = semaphore + 1
    /\ opc' = IF ReturnExceptions THEN opc ELSE "raised"
    /\ UNCHANGED <<extVars, turnVars, ctxVars, topVars>>
    /\ UNCHANGED <<tasks, deps, remaining, completed, waves, warned, plan, seqIdx,
                   results, taskStatus>>

\* a zip loop that files every outcome under the first task of the bucket
ZipEntryFirst(t, out) ==
    IF out = "raised" THEN ErrorEntry(plan.parallel[1]) ELSE TaskResult(plan.parallel[1], out)

\* one iteration of: for task, result in zip(parallelTasks, parallelResults)
ZipEntry(t, out) == IF out = "raised" THEN ErrorEntry(t) ELSE TaskResult(t, out)
ZipStatus(out) == IF out = "raised" THEN "failed" ELSE "completed"

\* gather returned (every coroutine settled): the zip loop and the return
ParCollect ==
    /\ opc = "parallel"
    /\ \A t \in Range(plan.parallel) : tstate[t] = "settled"
    /\ results' = [t \in TaskIds |->
                     IF t \in Range(plan.parallel)
                     THEN ZipEntry(t, outcome[t]) ELSE results[t]]
    /\ taskStatus' = [t \in TaskIds |->
                        IF t \in Range(plan.parallel)
                        THEN ZipStatus(outcome[t]) ELSE taskStatus[t]]
    /\ opc' = "returned"
    /\ UNCHANGED <<extVars, turnVars, ctxVars, topVars>>
    /\ UNCHANGED <<tasks, deps, remaining, completed, waves, warned, plan, seqIdx,
                   tstate, outcome, semaphore>>

\* the order in which _executeParallelTasks starts the tasks of a plan: the
\* sequential bucket, then the parallel bucket
ExecutionOrder(p) == p.sequential \o p.parallel

(***************************************************************************)
(* Agent resolution: agentRegistry.getByType and _createDefaultAgent       *)
(***************************************************************************)
\* the callers that resolve an agent: the subtasks of a wave and the
\* orchestrate calls of one tenant
Callers == 1..NumCallers

\* values of AgentType that the callers ask for
AgentTypes == {"orchestrator", "sql_agent", "bi_agent"}

\* getByType returned None
NoAgent == 0

\* the item register writes for a new agent; agent.id is a fresh uuid4
NewAgentItem(ty) == [id |-> Len(agentTable) + 1, type |-> ty]

\* put_item: the item takes its place in the order of the sort key AGENT#<id>,
\* which for a random id is any place
PutItem(table, item) ==
    {SubSeq(table, 1, p - 1) \o <<item>> \o SubSeq(table, p, Len(table)) :
        p \in 1..(Len(table) + 1)}

\* table.query(KeyConditionExpression=pk, FilterExpression=type, Limit=1):
\* Limit bounds the items evaluated, the filter is applied to those
QueryByType(ty) ==
    IF agentTable # <<>> /\ agentTable[1].type = ty THEN agentTable[1].id ELSE NoAgent

\* getByType: the first item of the query, None if there is none, and None
\* again when the query raises (except Exception: return None)
GetByTypeOutcomes(ty) == {QueryByType(ty), NoAgent}

\* agent = await getByType(...); if not agent: agent = await _createDefaultAgent(...)
\* None of the awaited coroutines suspends (the table calls are blocking), so
\* no other coroutine of the event loop runs between the query and the write.
ResolveAgent(c, ty) ==
    /\ \E found \in GetByTypeOutcomes(ty) :
          IF found # NoAgent
          THEN /\ resolvedAgent' = [resolvedAgent EXCEPT ![c] = found]
               /\ UNCHANGED agentTable
          ELSE /\ Len(agentTable) < MaxAgents
               /\ agentTable' \in PutItem(agentTable, NewAgentItem(ty))
               /\ resolvedAgent' = [resolvedAgent EXCEPT ![c] = NewAgentItem(ty).id]
    /\ UNCHANGED nonAgentVars

\* register raised (put_item failed): nothing is written, the caller gets the
\* exception
RegisterRaises(c, ty) ==
    /\ NoAgent \in GetByTypeOutcomes(ty)
    /\ resolvedAgent' = [resolvedAgent EXCEPT ![c] = NoAgent]
    /\ UNCHANGED agentTable
    /\ UNCHANGED nonAgentVars

AgentInit ==
    /\ agentTable = <<>>
    /\ resolvedAgent = [c \in Callers |-> NoAgent]

(***************************************************************************)
(* AsyncAgentExecutor: submitAsyncTask and the worker's processAsyncTask   *)
(***************************************************************************)
AsyncTasks == 1..NumAsyncTasks

\* no item under the task's key
NoItem == [status |-> "absent", response |-> "None", error |-> "None"]

\* sqs.send_message returned
SendMessage(k) ==
    /\ submitPc[k] = "idle"
    /\ asyncQueue' = [asyncQueue EXCEPT ![k] = TRUE]
    /\ submitPc' = [submitPc EXCEPT ![k] = "sent"]
    /\ UNCHANGED <<workerPc, asyncItem>>
    /\ UNCHANGED nonAsyncVars

\* table.put_item(Item={..., "status": AgentStatus.IDLE.value, ...}): the
\* item under the key is replaced as a whole
PutIdleItem(k) ==
    /\ submitPc[k] = "sent"
    /\ asyncItem' = [asyncItem EXCEPT ![k] = [NoItem EXCEPT !.status = "idle"]]
    /\ submitPc' = [submitPc EXCEPT ![k] = "returned"]
    /\ UNCHANGED <<asyncQueue, workerPc>>
    /\ UNCHANGED nonAsyncVars

\* send_message or put_item raised: the exception is logged and raised again
SubmitRaises(k) ==
    /\ submitPc[k] \in {"idle", "sent"}
    /\ submitPc' = [submitPc EXCEPT ![k] = "raised"]
    /\ UNCHANGED <<asyncQueue, workerPc, asyncItem>>
    /\ UNCHANGED nonAsyncVars

\* a worker received the message and processAsyncTask ran its first
\* update_item: SET status = running (the item is created if there is none)
StartProcessing(k) ==
    /\ asyncQueue[k]
    /\ workerPc[k] = "idle"
    /\ asyncQueue' = [asyncQueue EXCEPT ![k] = FALSE]
    /\ asyncItem' = [asyncItem EXCEPT ![k].status = "running"]
    /\ workerPc' = [workerPc EXCEPT ![k] = "running"]
    /\ UNCHANGED submitPc
    /\ UNCHANGED nonAsyncVars

\* engine.execute returned: SET status = execution.status, response = ...
FinishProcessing(k) ==
    /\ workerPc[k] = "running"
    /\ \E st \in {"completed", "failed"}, r \in {"", "answer"} :
          asyncItem' = [asyncItem EXCEPT ![k].status = st, ![k].response = r]
    /\ workerPc' = [workerPc EXCEPT ![k] = "returned"]
    /\ UNCHANGED <<submitPc, asyncQueue>>
    /\ UNCHANGED nonAsyncVars

\* agentRegistry.get or engine.execute raised: SET status = failed,
\* errorMessage = ...
FailProcessing(k) ==
    /\ workerPc[k] = "running"
    /\ asyncItem' = [asyncItem EXCEPT ![k].status = "failed", ![k].error = "error"]
    /\ workerPc' = [workerPc EXCEPT ![k] = "returned"]
    /\ UNCHANGED <<submitPc, asyncQueue>>
    /\ UNCHANGED nonAsyncVars

AsyncInit ==
    /\ submitPc = [k \in AsyncTasks |-> "idle"]
    /\ asyncQueue = [k \in AsyncTasks |-> FALSE]
    /\ workerPc = [k \in AsyncTasks |-> "idle"]
    /\ asyncItem = [k \in AsyncTasks |-> NoItem]

(***************************************************************************)
(* ToolRegistry.register / deactivate and ToolVersioning                   *)
(***************************************************************************)
\* the versions the calls name, as _parseVersionTuple reads "1.0.0", "1.2.0"
\* and "1.10.0"
Versions == {<<1, 0, 0>>, <<1, 2, 0>>, <<1, 10, 0>>}

\* getLatestVersion returned None
NoVersion == <<0, 0, 0>>

\* the order of the sort key of _sortVersions: tuples of integers
VersionLess(a, b) ==
    \/ a[1] < b[1]
    \/ a[1] = b[1] /\ a[2] < b[2]
    \/ a[1] = b[1] /\ a[2] = b[2] /\ a[3] < b[3]

\* the first element of sorted(..., reverse=True)
Highest(S) == CHOOSE v \in S : \A w \in S : w = v \/ VersionLess(w, v)

\* the items the query of _fetchTenantVersions returns
TableItems ==
    {[version |-> v, isActive |-> toolTable[v] = "active"] :
        v \in {w \in Versions : toolTable[w] # "absent"}}

\* no entry under the cache key
NoCache == [hit |-> FALSE, items |-> {}]

\* _fetchTenantVersions: a cached list is returned as it is; otherwise the
\* items are queried, filtered if includeInactive is false, cached and returned
FetchTenantVersions(includeInactive) ==
    IF versionCache.hit THEN versionCache.items
    ELSE IF includeInactive THEN TableItems
    ELSE {i \in TableItems : i.isActive}

\* self._tenantCache[cacheKey] = items
CacheAfterFetch(includeInactive) ==
    [hit |-> TRUE, items |-> FetchTenantVersions(includeInactive)]

\* the versions of getVersionHistory(includePublic=False, includeInactive)
HistoryVersions(includeInactive) ==
    {i.version : i \in FetchTenantVersions(includeInactive)}

\* getLatestVersion: history[0]["version"] of the history without inactive
\* versions, None if it is empty
LatestVersion ==
    IF HistoryVersions(FALSE) = {} THEN NoVersion ELSE Highest(HistoryVersions(FALSE))

\* versionExists(toolName, tenantId, version, includeInactive=True)
VersionExists(v) == v \in HistoryVersions(TRUE)

\* toolRegistry.getVersionHistory(toolName, tenantContext, includeInactive=...)
GetVersionHistory(includeInactive) ==
    /\ versionCache' = CacheAfterFetch(includeInactive)
    /\ lastCall' = "history"
    /\ UNCHANGED <<toolTable, registrations, latestResult>>
    /\ UNCHANGED nonToolVars

\* toolVersioning.getLatestVersion(toolName, tenantId)
GetLatestVersion ==
    /\ latestResult' = LatestVersion
    /\ versionCache' = CacheAfterFetch(FALSE)
    /\ lastCall' = "latest"
    /\ UNCHANGED <<toolTable, registrations>>
    /\ UNCHANGED nonToolVars

\* register(tool): ensureVersionAvailable raises InvalidToolDefinition when the
\* version exists; otherwise put_item writes the item and the cache entry is
\* invalidated; a put_item that raises leaves the table as it was
Register(v) ==
    /\ registrations[v] < MaxRegistrations
    /\ lastCall' = "register"
    /\ IF VersionExists(v)
       THEN /\ versionCache' = CacheAfterFetch(TRUE)
            /\ UNCHANGED <<toolTable, registrations>>
       ELSE \/ /\ toolTable' = [toolTable EXCEPT ![v] = "active"]
               /\ registrations' = [registrations EXCEPT ![v] = @ + 1]
               /\ versionCache' = NoCache
            \/ /\ versionCache' = CacheAfterFetch(TRUE)
               /\ UNCHANGED <<toolTable, registrations>>
    /\ UNCHANGED latestResult
    /\ UNCHANGED nonToolVars

\* deactivate(toolName, tenantContext, version) for a version that has an
\* item: update_item sets isActive to false and the cache entry is invalidated
Deactivate(v) ==
    /\ toolTable[v] # "absent"
    /\ toolTable' = [toolTable EXCEPT ![v] = "inactive"]
    /\ versionCache' = NoCache
    /\ lastCall' = "deactivate"
    /\ UNCHANGED <<registrations, latestResult>>
    /\ UNCHANGED nonToolVars

\* deactivate(toolName, tenantContext, "latest"): the version is the one
\* getLatestVersion returns; without one False is returned
DeactivateLatest ==
    /\ IF LatestVersion = NoVersion
       THEN /\ versionCache' = CacheAfterFetch(FALSE)
            /\ UNCHANGED toolTable
       ELSE /\ toolTable' = [toolTable EXCEPT ![LatestVersion] = "inactive"]
            /\ versionCache' = NoCache
    /\ lastCall' = "deactivate"
    /\ UNCHANGED <<registrations, latestResult>>
    /\ UNCHANGED nonToolVars

ToolInit ==
    /\ toolTable = [v \in Versions |-> "absent"]
    /\ versionCache = NoCache
    /\ registrations = [v \in Versions |-> 0]
    /\ lastCall = "none"
    /\ latestResult = NoVersion

ExtInit == AgentInit /\ AsyncInit /\ ToolInit

(***************************************************************************)
(* AgentOrchestrator.orchestrate                                           *)
(***************************************************************************)
EmptyPlan == [sequential |-> <<>>, parallel |-> <<>>]

\* orchestrate has not returned
NoPayload ==
    [kind |-> "none", response |-> "None", tasks |-> {},
     results |-> [t \in TaskIds |-> Absent], executionPlan |-> EmptyPlan]

\* the kinds of answer the model may give to the decomposition prompt: text
\* that is no JSON, JSON that is no object, an object with no (or an empty)
\* "tasks", a "tasks" whose elements are no objects, a task without
\* "description" or "agentType", an agentType that names no AgentType, a field
\* TaskDecomposition rejects, and a well-formed non-empty task list
DecompositionOutputs ==
    {"notJson", "notObject", "noTasks", "elementNotObject", "missingField",
     "unknownAgentType", "invalidField", "valid"}

\* the exception the try block of _decomposeTask raises on each kind of answer
DecomposeRaises(kind) ==
    CASE kind = "notJson" -> "JSONDecodeError"
      [] kind = "notObject" -> "AttributeError"
      [] kind = "elementNotObject" -> "TypeError"
      [] kind = "missingField" -> "KeyError"
      [] kind = "unknownAgentType" -> "ValueError"
      [] kind = "invalidField" -> "ValidationError"
      [] OTHER -> "none"

\* except (json.JSONDecodeError, ValueError, KeyError); pydantic's
\* ValidationError is a ValueError
DecomposeCaught(exc) ==
    exc \in {"JSONDecodeError", "ValueError", "KeyError", "ValidationError"}

\* the texts an AgentExecution that execute returns may carry as agentResponse
ReturnedResponses == {"None", "", "answer"}

\* no engine.execute call was issued by orchestrate itself
NoCalls == [single |-> 0, synthesis |-> 0]

\* _getOrCreateOrchestrator returned
GetOrchestrator ==
    /\ opc = "lookup"
    /\ opc' = "decompose"
    /\ UNCHANGED <<extVars, turnVars, ctxVars, topVars>>
    /\ UNCHANGED <<tasks, deps, remaining, completed, waves, warned, plan, seqIdx,
                   tstate, outcome, results, taskStatus, semaphore>>

\* the agent registry raised in _getOrCreateOrchestrator
GetOrchestratorError ==
    /\ opc = "lookup"
    /\ opc' = "raised"
    /\ UNCHANGED <<extVars, turnVars, ctxVars, topVars>>
    /\ UNCHANGED <<tasks, deps, remaining, completed, waves, warned, plan, seqIdx,
                   tstate, outcome, results, taskStatus, semaphore>>

\* _decomposeTask: the model's answer is parsed; then `if not tasks` and, for a
\* task list, the first statements of _buildExecutionPlan
Decompose ==
    /\ opc = "decompose"
    /\ \E kind \in DecompositionOutputs :
          /\ modelOutput' = kind
          /\ IF kind = "valid"
             THEN /\ \E n \in 1..NumTasks :
                        /\ tasks' = 1..n
                        /\ remaining' = 1..n
                        /\ \E E \in EdgeSets(n) : deps' = DepsOf(E)
                  /\ opc' = "planning"
                  /\ UNCHANGED payload
             ELSE IF DecomposeRaises(kind) = "none" \/ DecomposeCaught(DecomposeRaises(kind))
             THEN /\ tasks' = {}
                  /\ opc' = "single"
                  /\ UNCHANGED <<deps, remaining, payload>>
             ELSE /\ tasks' = {}
                  /\ opc' = "raised"
                  /\ UNCHANGED <<deps, remaining, payload>>
    /\ UNCHANGED <<extVars, turnVars, ctxVars, loopCalls>>
    /\ UNCHANGED <<completed, waves, warned, plan, seqIdx, tstate, outcome, results,
                   taskStatus, semaphore>>

\* _executeSingleAgent: engine.execute returned
SingleAgentReturn ==
    /\ opc = "single"
    /\ \E r \in ReturnedResponses :
          payload' = [NoPayload EXCEPT !.kind = "returned", !.response = r]
    /\ loopCalls' = [loopCalls EXCEPT !.single = @ + 1]
    /\ opc' = "done"
    /\ UNCHANGED <<extVars, turnVars, ctxVars, modelOutput>>
    /\ UNCHANGED <<tasks, deps, remaining, completed, waves, warned, plan, seqIdx,
                   tstate, outcome, results, taskStatus, semaphore>>

\* _executeSingleAgent: engine.execute raised
SingleAgentRaise ==
    /\ opc = "single"
    /\ loopCalls' = [loopCalls EXCEPT !.single = @ + 1]
    /\ opc' = "raised"
    /\ UNCHANGED <<extVars, turnVars, ctxVars, modelOutput, payload>>
    /\ UNCHANGED <<tasks, deps, remaining, completed, waves, warned, plan, seqIdx,
                   tstate, outcome, results, taskStatus, semaphore>>

\* return execution.agentResponse or "Unable to synthesize results"
SynthesisText(r) == IF Truthy(r) THEN r ELSE "Unable to synthesize results"

\* _synthesizeResults returned: orchestrate returns the payload
Synthesize ==
    /\ opc = "returned"
    /\ \E r \in ReturnedResponses :
          payload' = [kind |-> "returned", response |-> SynthesisText(r),
                      tasks |-> tasks, results |-> results, executionPlan |-> plan]
    /\ loopCalls' = [loopCalls EXCEPT !.synthesis = @ + 1]
    /\ opc' = "done"
    /\ UNCHANGED <<extVars, turnVars, ctxVars, modelOutput>>
    /\ UNCHANGED <<tasks, deps, remaining, completed, waves, warned, plan, seqIdx,
                   tstate, outcome, results, taskStatus, semaphore>>

\* _synthesizeResults: engine.execute raised
SynthesizeRaise ==
    /\ opc = "returned"
    /\ loopCalls' = [loopCalls EXCEPT !.synthesis = @ + 1]
    /\ opc' = "raised"
    /\ UNCHANGED <<extVars, turnVars, ctxVars, modelOutput, payload>>
    /\ UNCHANGED <<tasks, deps, remaining, completed, waves, warned, plan, seqIdx,
                   tstate, outcome, results, taskStatus, semaphore>>

(***************************************************************************)
(* AgentEngine.execute                                                     *)
(***************************************************************************)
ExecIds == 1..NumExecs

\* the tool the agent declares; a model response may also ask for "tx", a
\* name no tool of the agent has
AgentToolNames == {"t1"}

\* no AgentExecution has been constructed
NoExecution ==
    [status |-> "none", agentResponse |-> "None", tokensUsed |-> 0,
     errorMessage |-> "None", toolCalls |-> <<>>]

\* AgentExecution.model_construct(..., status=AgentStatus.RUNNING, ...)
NewExecution ==
    [status |-> "running", agentResponse |-> "None", tokensUsed |-> 0,
     errorMessage |-> "None", toolCalls |-> <<>>]

\* a depth test that lets depth = maxRecursionDepth through
DepthExceededStrict(d) == d > maxRecursionDepth

\* if depth >= settings.agent.maxRecursionDepth
DepthExceeded(d) == d >= maxRecursionDepth

\* the depth check fails: RecursionDepthExceeded leaves execute at once
ExecuteRejected(e, d) ==
    /\ xpc[e] = "idle"
    /\ DepthExceeded(d)
    /\ depth' = [depth EXCEPT ![e] = d]
    /\ raisedExc' = [raisedExc EXCEPT ![e] = "RecursionDepthExceeded"]
    /\ xpc' = [xpc EXCEPT ![e] = "raised"]
    /\ UNCHANGED <<execution, activeExecutions, tools, messages, totalTokens,
                   iterations, pending, responses, modelCalls, dispatched,
                   collabCalls, conversation, episodic>>
    /\ UNCHANGED <<extVars, orchVars, ctxVars, cancelVars>>

\* the depth check passes: the record is constructed and registered, then
\* execute awaits toolRegistry.getToolsForAgent
ExecuteStart(e, d) ==
    /\ xpc[e] = "idle"
    /\ ~DepthExceeded(d)
    /\ depth' = [depth EXCEPT ![e] = d]
    /\ execution' = [execution EXCEPT ![e] = NewExecution]
    /\ activeExecutions' = activeExecutions \cup {e}
    /\ xpc' = [xpc EXCEPT ![e] = "getTools"]
    /\ UNCHANGED <<tools, messages, totalTokens, iterations, pending, responses,
                   modelCalls, dispatched, collabCalls, raisedExc, conversation,
                   episodic>>
    /\ UNCHANGED <<extVars, orchVars, ctxVars, cancelVars>>

\* getToolsForAgent returned: declared tools that are missing are dropped
GetTools(e) ==
    /\ xpc[e] = "getTools"
    /\ \E resolved \in SUBSET AgentToolNames : tools' = [tools EXCEPT ![e] = resolved]
    /\ collabCalls' = [collabCalls EXCEPT ![e] = @ + 1]
    /\ xpc' = [xpc EXCEPT ![e] = "retrieveContext"]
    /\ UNCHANGED <<depth, execution, activeExecutions, messages, totalTokens,
                   iterations, pending, responses, modelCalls, dispatched,
                   raisedExc, conversation, episodic>>
    /\ UNCHANGED <<extVars, orchVars, ctxVars, cancelVars>>

\* memory.retrieveContext returned
RetrieveContextDone(e) ==
    /\ xpc[e] = "retrieveContext"
    /\ collabCalls' = [collabCalls EXCEPT ![e] = @ + 1]
    /\ xpc' = [xpc EXCEPT ![e] = "getHistory"]
    /\ UNCHANGED <<depth, execution, activeExecutions, tools, messages, totalTokens,
                   iterations, pending, responses, modelCalls, dispatched,
                   raisedExc, conversation, episodic>>
    /\ UNCHANGED <<extVars, orchVars, ctxVars, cancelVars>>

\* getConversationHistory(..., limit=20): the last `limit` entries
HistoryLimit == 20
LastN(s, n) == IF Len(s) <= n THEN s ELSE SubSeq(s, Len(s) - n + 1, Len(s))

\* {"role": "user", "content": userMessage}
UserMessage(e) ==
    [role |-> "user", type |-> "text", id |-> <<0, 0>>, text |-> "user", calls |-> <<>>]

\* memory.getConversationHistory returned: messages = history + [user message]
GetHistory(e) ==
    /\ xpc[e] = "getHistory"
    /\ collabCalls' = [collabCalls EXCEPT ![e] = @ + 1]
    /\ messages' = [messages EXCEPT ![e] =
                      [i \in 1..Len(LastN(conversation, HistoryLimit)) |->
                          [role |-> LastN(conversation, HistoryLimit)[i].role,
                           type |-> "text", id |-> <<0, 0>>,
                           text |-> LastN(conversation, HistoryLimit)[i].content,
                           calls |-> <<>>]]
                      \o <<UserMessage(e)>>]
    /\ totalTokens' = [totalTokens EXCEPT ![e] = 0]
    /\ iterations' = [iterations EXCEPT ![e] = 0]
    /\ xpc' = [xpc EXCEPT ![e] = "loop"]
    /\ UNCHANGED <<depth, execution, activeExecutions, tools, pending, responses,
                   modelCalls, dispatched, raisedExc, conversation, episodic>>
    /\ UNCHANGED <<extVars, orchVars, ctxVars, cancelVars>>

\* the tool names the tool_use blocks of one response may ask for, in order
RequestLists ==
    {<<"t1">>, <<"tx">>, <<"t1", "t1">>, <<"t1", "tx">>, <<"tx", "t1">>, <<"tx", "tx">>}

\* the tool_use blocks a response of iteration `it` may carry (ids are unique)
ToolCallLists(it) ==
    {[k \in 1..Len(nm) |-> [id |-> <<it, k>>, name |-> nm[k]]] : nm \in RequestLists}

\* what invokeModel may return in iteration `it`: usage.total_tokens, the
\* first text block (extractTextResponse) and the tool_use blocks (extractToolCalls)
ModelResponses(it) ==
    {[usage |-> u, text |-> x, toolCalls |-> <<>>] : u \in 0..MaxUsage, x \in {"", "answer"}}
    \cup
    {[usage |-> u, text |-> "", toolCalls |-> c] : u \in 0..MaxUsage, c \in ToolCallLists(it)}

\* a ceiling test that a last iteration never trips
IterationsExceededStrict(it) == it > maxIterations

\* if iterations >= maxIterations (after the loop)
IterationsExceeded(it) == it >= maxIterations

\* the statements after the while loop, up to the first await
AfterLoop(x, it) ==
    IF IterationsExceeded(it)
    THEN [x EXCEPT !.status = "failed", !.errorMessage = "Max iterations exceeded"]
    ELSE x

\* except Exception as e: the record is marked failed; finally: it is unregistered
HandlerRecord(x, msg) == [x EXCEPT !.status = "failed", !.errorMessage = msg]

\* one iteration of the while loop up to its first await: the model call, the
\* token accounting and ceiling, and the branch on the tool calls
ModelCall(e) ==
    /\ xpc[e] = "loop"
    /\ iterations[e] < maxIterations
    /\ iterations' = [iterations EXCEPT ![e] = @ + 1]
    /\ modelCalls' = [modelCalls EXCEPT ![e] = @ + 1]
    /\ \E r \in ModelResponses(iterations[e] + 1) :
          /\ responses' = [responses EXCEPT ![e] = Append(@, r)]
          /\ totalTokens' = [totalTokens EXCEPT ![e] = @ + r.usage]
          /\ IF totalTokens[e] + r.usage > maxTokenLimit
             THEN \* raise TokenLimitExceeded, wrapped into AgentExecutionError
                  /\ execution' = [execution EXCEPT ![e] =
                                     HandlerRecord(@, "Token limit exceeded")]
                  /\ raisedExc' = [raisedExc EXCEPT ![e] = "AgentExecutionError"]
                  /\ activeExecutions' = activeExecutions \ {e}
                  /\ xpc' = [xpc EXCEPT ![e] = "raised"]
                  /\ UNCHANGED <<messages, pending>>
             ELSE IF r.toolCalls = <<>>
             THEN \* the final answer: break, then the statements after the loop
                  /\ execution' = [execution EXCEPT ![e] =
                                     AfterLoop([@ EXCEPT !.agentResponse = r.text,
                                                         !.status = "completed",
                                                         !.tokensUsed = totalTokens[e] + r.usage],
                                               iterations[e] + 1)]
                  /\ xpc' = [xpc EXCEPT ![e] = "appendUser"]
                  /\ UNCHANGED <<messages, pending, raisedExc, activeExecutions>>
             ELSE \* the model's raw turn is appended, the tool calls are handled next
                  /\ messages' = [messages EXCEPT ![e] =
                                    Append(@, [role |-> "assistant", type |-> "tool_use",
                                               id |-> <<iterations[e] + 1, 0>>,
                                               text |-> r.text, calls |-> r.toolCalls])]
                  /\ pending' = [pending EXCEPT ![e] = r.toolCalls]
                  /\ xpc' = [xpc EXCEPT ![e] = "tool"]
                  /\ UNCHANGED <<execution, raisedExc, activeExecutions>>
    /\ UNCHANGED <<depth, tools, dispatched, collabCalls, conversation, episodic>>
    /\ UNCHANGED <<extVars, orchVars, ctxVars, cancelVars>>

\* a loop that feeds only successful results back into the message list
RecordToolResultDropError(e, result) ==
    /\ execution' = [execution EXCEPT ![e].toolCalls =
                       Append(@, [id |-> Head(pending[e]).id,
                                  name |-> Head(pending[e]).name,
                                  result |-> result])]
    /\ messages' = [messages EXCEPT ![e] =
                      IF result = "result"
                      THEN Append(@, [role |-> "user", type |-> "tool_result",
                                      id |-> Head(pending[e]).id,
                                      text |-> result, calls |-> <<>>])
                      ELSE @]
    /\ pending' = [pending EXCEPT ![e] = Tail(@)]
    /\ xpc' = [xpc EXCEPT ![e] = IF Tail(pending[e]) = <<>> THEN "loop" ELSE "tool"]

\* execution.toolCalls.append(...) and messages.append(formatToolResult(...))
\* for the first pending tool call, with the given result
RecordToolResult(e, result) ==
    /\ execution' = [execution EXCEPT ![e].toolCalls =
                       Append(@, [id |-> Head(pending[e]).id,
                                  name |-> Head(pending[e]).name,
                                  result |-> result])]
    /\ messages' = [messages EXCEPT ![e] =
                      Append(@, [role |-> "user", type |-> "tool_result",
                                 id |-> Head(pending[e]).id,
                                 text |-> result, calls |-> <<>>])]
    /\ pending' = [pending EXCEPT ![e] = Tail(@)]
    /\ xpc' = [xpc EXCEPT ![e] = IF Tail(pending[e]) = <<>> THEN "loop" ELSE "tool"]

\* a loop in which a request for an unknown tool ends the turn with an error
ToolNotFoundRaises(e) ==
    /\ xpc[e] = "tool"
    /\ pending[e] # <<>>
    /\ Head(pending[e]).name \notin tools[e]
    /\ execution' = [execution EXCEPT ![e] = HandlerRecord(@, "tool not found")]
    /\ raisedExc' = [raisedExc EXCEPT ![e] = "AgentExecutionError"]
    /\ activeExecutions' = activeExecutions \ {e}
    /\ pending' = [pending EXCEPT ![e] = <<>>]
    /\ xpc' = [xpc EXCEPT ![e] = "raised"]
    /\ UNCHANGED <<depth, tools, messages, totalTokens, iterations, responses,
                   modelCalls, dispatched, collabCalls, conversation, episodic>>
    /\ UNCHANGED <<extVars, orchVars, ctxVars, cancelVars>>

\* the requested name is not among the resolved tools: an in-band error result
ToolNotFound(e) ==
    /\ xpc[e] = "tool"
    /\ pending[e] # <<>>
    /\ Head(pending[e]).name \notin tools[e]
    /\ RecordToolResult(e, "error: tool not found")
    /\ UNCHANGED <<depth, activeExecutions, tools, totalTokens, iterations, responses,
                   modelCalls, dispatched, collabCalls, raisedExc, conversation,
                   episodic>>
    /\ UNCHANGED <<extVars, orchVars, ctxVars, cancelVars>>

\* a loop in which an exception of toolExecutor.execute reaches the handler
ToolExecutedPropagates(e) ==
    /\ xpc[e] = "tool"
    /\ pending[e] # <<>>
    /\ Head(pending[e]).name \in tools[e]
    /\ dispatched' = [dispatched EXCEPT ![e] = @ + 1]
    /\ \/ RecordToolResult(e, "result") /\ UNCHANGED <<raisedExc, activeExecutions>>
       \/ /\ execution' = [execution EXCEPT ![e] = HandlerRecord(@, "tool error")]
          /\ raisedExc' = [raisedExc EXCEPT ![e] = "AgentExecutionError"]
          /\ activeExecutions' = activeExecutions \ {e}
          /\ pending' = [pending EXCEPT ![e] = <<>>]
          /\ xpc' = [xpc EXCEPT ![e] = "raised"]
          /\ UNCHANGED messages
    /\ UNCHANGED <<depth, tools, totalTokens, iterations, responses, modelCalls,
                   collabCalls, conversation, episodic>>
    /\ UNCHANGED <<extVars, orchVars, ctxVars, cancelVars>>

\* toolExecutor.execute returned, or raised and the exception was caught
ToolExecuted(e) ==
    /\ xpc[e] = "tool"
    /\ pending[e] # <<>>
    /\ Head(pending[e]).name \in tools[e]
    /\ dispatched' = [dispatched EXCEPT ![e] = @ + 1]
    /\ \E result \in {"result", "error: exception"} : RecordToolResult(e, result)
    /\ UNCHANGED <<depth, activeExecutions, tools, totalTokens, iterations, responses,
                   modelCalls, collabCalls, raisedExc, conversation, episodic>>
    /\ UNCHANGED <<extVars, orchVars, ctxVars, cancelVars>>

\* the while condition fails: the statements after the loop
LoopExit(e) ==
    /\ xpc[e] = "loop"
    /\ ~(iterations[e] < maxIterations)
    /\ execution' = [execution EXCEPT ![e] = AfterLoop(@, iterations[e])]
    /\ xpc' = [xpc EXCEPT ![e] = "appendUser"]
    /\ UNCHANGED <<depth, activeExecutions, tools, messages, totalTokens, iterations,
                   pending, responses, modelCalls, dispatched, collabCalls, raisedExc,
                   conversation, episodic>>
    /\ UNCHANGED <<extVars, orchVars, ctxVars, cancelVars>>

\* appendToConversation(user message) returned; without a response text the
\* execution is returned (finally: unregister)
AppendUser(e) ==
    /\ xpc[e] = "appendUser"
    /\ collabCalls' = [collabCalls EXCEPT ![e] = @ + 1]
    /\ conversation' = Append(conversation, [role |-> "user", from |-> e, content |-> "user"])
    /\ IF Truthy(execution[e].agentResponse)
       THEN /\ xpc' = [xpc EXCEPT ![e] = "appendAssistant"]
            /\ UNCHANGED activeExecutions
       ELSE /\ xpc' = [xpc EXCEPT ![e] = "returned"]
            /\ activeExecutions' = activeExecutions \ {e}
    /\ UNCHANGED <<depth, execution, tools, messages, totalTokens, iterations, pending,
                   responses, modelCalls, dispatched, raisedExc, episodic>>
    /\ UNCHANGED <<extVars, orchVars, ctxVars, cancelVars>>

\* appendToConversation(assistant message) returned
AppendAssistant(e) ==
    /\ xpc[e] = "appendAssistant"
    /\ collabCalls' = [collabCalls EXCEPT ![e] = @ + 1]
    /\ conversation' = Append(conversation,
                              [role |-> "assistant", from |-> e,
                               content |-> execution[e].agentResponse])
    /\ xpc' = [xpc EXCEPT ![e] = "storeInteraction"]
    /\ UNCHANGED <<depth, execution, activeExecutions, tools, messages, totalTokens,
                   iterations, pending, responses, modelCalls, dispatched, raisedExc,
                   episodic>>
    /\ UNCHANGED <<extVars, orchVars, ctxVars, cancelVars>>

\* an execute without the finally block: the returned turn stays registered
StoreInteractionLeavesEntry(e) ==
    /\ xpc[e] = "storeInteraction"
    /\ collabCalls' = [collabCalls EXCEPT ![e] = @ + 1]
    /\ episodic' = Append(episodic,
                          [from |-> e,
                           response |-> execution[e].agentResponse,
                           toolsUsed |-> [i \in 1..Len(execution[e].toolCalls) |->
                                             execution[e].toolCalls[i].name],
                           outcome |-> IF execution[e].status = "completed"
                                       THEN "success" ELSE "failed",
                           importance |-> IF depth[e] = 0 THEN 6 ELSE 4])
    /\ xpc' = [xpc EXCEPT ![e] = "returned"]
    /\ UNCHANGED activeExecutions
    /\ UNCHANGED <<depth, execution, tools, messages, totalTokens, iterations, pending,
                   responses, modelCalls, dispatched, raisedExc, conversation>>
    /\ UNCHANGED <<extVars, orchVars, ctxVars, cancelVars>>

\* storeInteraction returned; the execution is returned (finally: unregister)
StoreInteraction(e) ==
    /\ xpc[e] = "storeInteraction"
    /\ collabCalls' = [collabCalls EXCEPT ![e] = @ + 1]
    /\ episodic' = Append(episodic,
                          [from |-> e,
                           response |-> execution[e].agentResponse,
                           toolsUsed |-> [i \in 1..Len(execution[e].toolCalls) |->
                                             execution[e].toolCalls[i].name],
                           outcome |-> IF execution[e].status = "completed"
                                       THEN "success" ELSE "failed",
                           importance |-> IF depth[e] = 0 THEN 6 ELSE 4])
    /\ xpc' = [xpc EXCEPT ![e] = "returned"]
    /\ activeExecutions' = activeExecutions \ {e}
    /\ UNCHANGED <<depth, execution, tools, messages, totalTokens, iterations, pending,
                   responses, modelCalls, dispatched, raisedExc, conversation>>
    /\ UNCHANGED <<extVars, orchVars, ctxVars, cancelVars>>

\* the places where execute awaits the tool registry or the memory
AwaitingCollaborator(e) ==
    xpc[e] \in {"getTools", "retrieveContext", "getHistory", "appendUser",
                "appendAssistant", "storeInteraction"}

\* a tool-registry or memory call raised: except Exception marks the record
\* failed and raises AgentExecutionError; finally unregisters it
CollaboratorError(e) ==
    /\ AwaitingCollaborator(e)
    /\ collabCalls' = [collabCalls EXCEPT ![e] = @ + 1]
    /\ execution' = [execution EXCEPT ![e] = HandlerRecord(@, "collaborator error")]
    /\ raisedExc' = [raisedExc EXCEPT ![e] = "AgentExecutionError"]
    /\ activeExecutions' = activeExecutions \ {e}
    /\ xpc' = [xpc EXCEPT ![e] = "raised"]
    /\ UNCHANGED <<depth, tools, messages, totalTokens, iterations, pending, responses,
                   modelCalls, dispatched, conversation, episodic>>
    /\ UNCHANGED <<extVars, orchVars, ctxVars, cancelVars>>

\* bedrock.invokeModel raised (ClientError wrapped into AgentExecutionError)
ModelCallError(e) ==
    /\ xpc[e] = "loop"
    /\ iterations[e] < maxIterations
    /\ iterations' = [iterations EXCEPT ![e] = @ + 1]
    /\ modelCalls' = [modelCalls EXCEPT ![e] = @ + 1]
    /\ execution' = [execution EXCEPT ![e] = HandlerRecord(@, "model error")]
    /\ raisedExc' = [raisedExc EXCEPT ![e] = "AgentExecutionError"]
    /\ activeExecutions' = activeExecutions \ {e}
    /\ xpc' = [xpc EXCEPT ![e] = "raised"]
    /\ UNCHANGED <<depth, tools, messages, totalTokens, pending, responses,
                   dispatched, collabCalls, conversation, episodic>>
    /\ UNCHANGED <<extVars, orchVars, ctxVars, cancelVars>>

\* a cancelExecution that empties the whole registry
CancelExecutionClearAll(e) ==
    /\ IF e \in activeExecutions
       THEN /\ execution' = [execution EXCEPT ![e].status = "cancelled"]
            /\ activeExecutions' = {}
            /\ cancelled' = cancelled \cup {e}
            /\ cancelResult' = [cancelResult EXCEPT ![e] = "True"]
       ELSE /\ cancelResult' = [cancelResult EXCEPT ![e] = "False"]
            /\ UNCHANGED <<execution, activeExecutions, cancelled>>
    /\ UNCHANGED <<xpc, depth, tools, messages, totalTokens, iterations, pending,
                   responses, modelCalls, dispatched, collabCalls, raisedExc,
                   conversation, episodic>>
    /\ UNCHANGED <<extVars, orchVars, ctxVars>>

\* cancelExecution(executionId): a registered record is marked cancelled and
\* unregistered (True is returned); for any other id nothing changes (False)
CancelExecution(e) ==
    /\ IF e \in activeExecutions
       THEN /\ execution' = [execution EXCEPT ![e].status = "cancelled"]
            /\ activeExecutions' = activeExecutions \ {e}
            /\ cancelled' = cancelled \cup {e}
            /\ cancelResult' = [cancelResult EXCEPT ![e] = "True"]
       ELSE /\ cancelResult' = [cancelResult EXCEPT ![e] = "False"]
            /\ UNCHANGED <<execution, activeExecutions, cancelled>>
    /\ UNCHANGED <<xpc, depth, tools, messages, totalTokens, iterations, pending,
                   responses, modelCalls, dispatched, collabCalls, raisedExc,
                   conversation, episodic>>
    /\ UNCHANGED <<extVars, orchVars, ctxVars>>

(***************************************************************************)
(* MemoryManager.retrieveContext                                           *)
(***************************************************************************)
\* bedrockClient.countTokens: len(text) // 4
CountTokens(chars) == chars \div 4

\* lengths of str(workingCtx) ("{}" has 2 characters) and of record contents
WorkingChars == {2, 6, 11, 17}
ContentChars == {3, 4, 9}

\* settings.memory.decayThresholdDays
decayThresholdDays == 7

\* the semantic records the vector store may return: content length, age in
\* days at the time of the call, importance and confidenceScore in tenths
SemanticPool ==
    [chars : {4, 9}, age : {0, 3, 14, 126}, importance : {5, 7}, confidence : {8}]

\* a recency score that grows with the age of the record
RecencyRising(age) == 25 * age

\* _calculateRecencyScore, times 150 * decayThresholdDays (all three branches
\* are then integers)
RecencyScaled(age) ==
    IF age < decayThresholdDays
    THEN 150 * decayThresholdDays
    ELSE IF age < decayThresholdDays * 4
    THEN 150 * decayThresholdDays - 25 * (age - decayThresholdDays)
    ELSE 75 * decayThresholdDays - 6 * (age - decayThresholdDays * 4)

\* recencyScore * 0.3 + importanceScore * 0.4 + confidenceScore * 0.3,
\* times 1500 * decayThresholdDays
RelevanceScaled(m) ==
    3 * RecencyScaled(m.age)
    + 60 * decayThresholdDays * m.importance
    + 45 * decayThresholdDays * m.confidence

\* a sort that puts a record before the records of equal relevance
RECURSIVE InsertBeforeEqual(_, _)
InsertBeforeEqual(sorted, m) ==
    IF sorted = <<>> THEN <<m>>
    ELSE IF RelevanceScaled(Head(sorted)) > RelevanceScaled(m)
    THEN <<Head(sorted)>> \o InsertBeforeEqual(Tail(sorted), m)
    ELSE <<m>> \o sorted

\* sorted(..., reverse=True) is stable: m goes behind every record whose
\* relevance is at least its own
RECURSIVE InsertByRelevance(_, _)
InsertByRelevance(sorted, m) ==
    IF sorted = <<>> THEN <<m>>
    ELSE IF RelevanceScaled(Head(sorted)) >= RelevanceScaled(m)
    THEN <<Head(sorted)>> \o InsertByRelevance(Tail(sorted), m)
    ELSE <<m>> \o sorted

RECURSIVE RankInto(_, _)
RankInto(sorted, rest) ==
    IF rest = <<>> THEN sorted
    ELSE RankInto(InsertByRelevance(sorted, Head(rest)), Tail(rest))

\* _rankMemories
RankMemories(memories) == RankInto(<<>>, memories)

\* if context["totalTokens"] + tokens < maxTokens
Fits(total, tokens, budget) == total + tokens < budget

\* a loop that skips a record that does not fit and goes on with the next
RECURSIVE TakeAllFitting(_, _, _)
TakeAllFitting(records, total, budget) ==
    IF records = <<>> THEN <<>>
    ELSE IF Fits(total, CountTokens(Head(records).chars), budget)
    THEN <<Head(records)>>
         \o TakeAllFitting(Tail(records), total + CountTokens(Head(records).chars), budget)
    ELSE TakeAllFitting(Tail(records), total, budget)

\* the for loop over the records: append while the record fits, break at the
\* first one that does not
RECURSIVE TakeWhileFits(_, _, _)
TakeWhileFits(records, total, budget) ==
    IF records = <<>> THEN <<>>
    ELSE IF Fits(total, CountTokens(Head(records).chars), budget)
    THEN <<Head(records)>>
         \o TakeWhileFits(Tail(records), total + CountTokens(Head(records).chars), budget)
    ELSE <<>>

RECURSIVE SumTokens(_)
SumTokens(records) ==
    IF records = <<>> THEN 0
    ELSE CountTokens(Head(records).chars) + SumTokens(Tail(records))

\* if context["totalTokens"] < maxTokens * 0.7 (exact for these budgets)
SemanticAllowed(total, budget) == 10 * total < 7 * budget

\* where retrieveContext awaits next once the episodic tier is done
AfterEpisodic(total, budget) ==
    IF SemanticAllowed(total, budget) THEN "semantic" ELSE "procedural"

EmptyContext ==
    [working |-> 0, episodic |-> <<>>, semantic |-> <<>>, procedural |-> <<>>,
     totalTokens |-> 0]

\* retrieveContext is called: the context dict is created, getAll is awaited
RetrieveContext ==
    /\ cpc = "idle"
    /\ \E budget \in 1..MaxBudget : maxTokens' = budget
    /\ context' = EmptyContext
    /\ cpc' = "working"
    /\ UNCHANGED <<recentEpisodic, semanticMemories>>
    /\ UNCHANGED <<extVars, orchVars, turnVars>>

\* workingMemory.getAll returned: the snapshot is always included
WorkingReturned ==
    /\ cpc = "working"
    /\ \E chars \in WorkingChars :
          /\ context' = [context EXCEPT !.working = chars,
                                        !.totalTokens = @ + CountTokens(chars)]
          /\ cpc' = IF context.totalTokens + CountTokens(chars) < maxTokens
                    THEN "episodic"
                    ELSE AfterEpisodic(context.totalTokens + CountTokens(chars), maxTokens)
    /\ UNCHANGED <<maxTokens, recentEpisodic, semanticMemories>>
    /\ UNCHANGED <<extVars, orchVars, turnVars>>

\* episodicMemory.retrieveBySession returned (most recent first)
EpisodicReturned ==
    /\ cpc = "episodic"
    /\ \E n \in 0..MaxRecords : \E cs \in [1..n -> ContentChars] :
          /\ recentEpisodic' = [i \in 1..n |-> [idx |-> i, chars |-> cs[i]]]
          /\ context' =
                [context EXCEPT
                    !.episodic = TakeWhileFits(recentEpisodic', context.totalTokens, maxTokens),
                    !.totalTokens = @ + SumTokens(TakeWhileFits(recentEpisodic',
                                                                context.totalTokens, maxTokens))]
          /\ cpc' = AfterEpisodic(context'.totalTokens, maxTokens)
    /\ UNCHANGED <<maxTokens, semanticMemories>>
    /\ UNCHANGED <<extVars, orchVars, turnVars>>

\* semanticMemory.search returned: the records are ranked, then appended
SemanticReturned ==
    /\ cpc = "semantic"
    /\ \E n \in 0..MaxRecords : \E ms \in [1..n -> SemanticPool] :
          /\ semanticMemories' =
                [i \in 1..n |-> [idx |-> i, chars |-> ms[i].chars, age |-> ms[i].age,
                                 importance |-> ms[i].importance,
                                 confidence |-> ms[i].confidence]]
          /\ context' =
                [context EXCEPT
                    !.semantic = TakeWhileFits(RankMemories(semanticMemories'),
                                               context.totalTokens, maxTokens),
                    !.totalTokens = @ + SumTokens(TakeWhileFits(RankMemories(semanticMemories'),
                                                                context.totalTokens, maxTokens))]
    /\ cpc' = "procedural"
    /\ UNCHANGED <<maxTokens, recentEpisodic>>
    /\ UNCHANGED <<extVars, orchVars, turnVars>>

\* number of pattern names kept: proceduralPatterns[:3]
ProceduralKept == 3

\* proceduralMemory.search(limit=5) returned; the context is returned
ProceduralReturned ==
    /\ cpc = "procedural"
    /\ \E n \in {0, 2, 5} :
          context' = [context EXCEPT !.procedural = [i \in 1..Min(n, ProceduralKept) |-> i]]
    /\ cpc' = "returned"
    /\ UNCHANGED <<maxTokens, recentEpisodic, semanticMemories>>
    /\ UNCHANGED <<extVars, orchVars, turnVars>>

\* retrieveContext has not been called
CtxInit ==
    /\ cpc = "idle"
    /\ maxTokens = 0
    /\ context = EmptyContext
    /\ recentEpisodic = <<>>
    /\ semanticMemories = <<>>

(***************************************************************************)
(* Specification of the orchestrator                                       *)
(***************************************************************************)
\* no call of AgentEngine.execute has been made
TurnInit ==
    /\ xpc = [e \in ExecIds |-> "idle"]
    /\ depth = [e \in ExecIds |-> 0]
    /\ execution = [e \in ExecIds |-> NoExecution]
    /\ activeExecutions = {}
    /\ tools = [e \in ExecIds |-> {}]
    /\ messages = [e \in ExecIds |-> <<>>]
    /\ totalTokens = [e \in ExecIds |-> 0]
    /\ iterations = [e \in ExecIds |-> 0]
    /\ pending = [e \in ExecIds |-> <<>>]
    /\ responses = [e \in ExecIds |-> <<>>]
    /\ modelCalls = [e \in ExecIds |-> 0]
    /\ dispatched = [e \in ExecIds |-> 0]
    /\ collabCalls = [e \in ExecIds |-> 0]
    /\ raisedExc = [e \in ExecIds |-> "none"]
    /\ conversation = <<>>
    /\ episodic = <<>>
    /\ cancelled = {}
    /\ cancelResult = [e \in ExecIds |-> "none"]

OrchInit ==
    /\ \E n \in 1..NumTasks :
          /\ tasks = 1..n
          /\ \E E \in EdgeSets(n) : deps = DepsOf(E)
    /\ opc = "planning"
    /\ remaining = tasks
    /\ completed = {}
    /\ waves = <<>>
    /\ warned = FALSE
    /\ plan = [sequential |-> <<>>, parallel |-> <<>>]
    /\ seqIdx = 1
    /\ tstate = [t \in TaskIds |-> "idle"]
    /\ outcome = [t \in TaskIds |-> "none"]
    /\ results = [t \in TaskIds |-> Absent]
    /\ taskStatus = [t \in TaskIds |-> "idle"]
    /\ semaphore = -1
    /\ modelOutput = "valid"
    /\ payload = NoPayload
    /\ loopCalls = NoCalls

\* the orchestrator is not running: one decomposition of a single task, unplanned
OrchIdle ==
    /\ tasks = {1}
    /\ deps = [t \in TaskIds |-> {}]
    /\ opc = "idle"
    /\ remaining = {}
    /\ completed = {}
    /\ waves = <<>>
    /\ warned = FALSE
    /\ plan = [sequential |-> <<>>, parallel |-> <<>>]
    /\ seqIdx = 1
    /\ tstate = [t \in TaskIds |-> "idle"]
    /\ outcome = [t \in TaskIds |-> "none"]
    /\ results = [t \in TaskIds |-> Absent]
    /\ taskStatus = [t \in TaskIds |-> "idle"]
    /\ semaphore = -1
    /\ modelOutput = "none"
    /\ payload = NoPayload
    /\ loopCalls = NoCalls

\* orchestrate is called: nothing is decomposed yet
OrchStart ==
    /\ tasks = {}
    /\ deps = [t \in TaskIds |-> {}]
    /\ opc = "lookup"
    /\ remaining = {}
    /\ completed = {}
    /\ waves = <<>>
    /\ warned = FALSE
    /\ plan = EmptyPlan
    /\ seqIdx = 1
    /\ tstate = [t \in TaskIds |-> "idle"]
    /\ outcome = [t \in TaskIds |-> "none"]
    /\ results = [t \in TaskIds |-> Absent]
    /\ taskStatus = [t \in TaskIds |-> "idle"]
    /\ semaphore = -1
    /\ modelOutput = "none"
    /\ payload = NoPayload
    /\ loopCalls = NoCalls

Init == OrchInit /\ TurnInit /\ CtxInit /\ ExtInit

Next ==
    \/ PlanPass
    \/ PlanBreak
    \/ PlanClassify
    \/ SeqStart
    \/ SeqReturn
    \/ SeqRaise
    \/ ParBegin
    \/ ParSkip
    \/ ParAcquire
    \/ \E t \in TaskIds : ParReturn(t)
    \/ \E t \in TaskIds : ParRaise(t)
    \/ ParCollect

Spec == Init /\ [][Next]_vars

(***************************************************************************)
(* Specification of one call of AgentOrchestrator.orchestrate              *)
(***************************************************************************)
InitOrch == OrchStart /\ TurnInit /\ CtxInit /\ ExtInit

NextOrch ==
    \/ GetOrchestrator
    \/ GetOrchestratorError
    \/ Decompose
    \/ SingleAgentReturn
    \/ SingleAgentRaise
    \/ PlanPass
    \/ PlanBreak
    \/ PlanClassify
    \/ SeqStart
    \/ SeqReturn
    \/ SeqRaise
    \/ ParBegin
    \/ ParSkip
    \/ ParAcquire
    \/ \E t \in TaskIds : ParReturn(t)
    \/ \E t \in TaskIds : ParRaise(t)
    \/ ParCollect
    \/ Synthesize
    \/ SynthesizeRaise

SpecOrch == InitOrch /\ [][NextOrch]_vars

(***************************************************************************)
(* Specification of one agent turn: a single call of AgentEngine.execute   *)
(***************************************************************************)
\* the depth arguments tried: top level, just below, at and above the ceiling
Depths == {0, maxRecursionDepth - 1, maxRecursionDepth, maxRecursionDepth + 1}

InitTurn == OrchIdle /\ TurnInit /\ CtxInit /\ ExtInit

NextTurn ==
    \/ \E d \in Depths : ExecuteRejected(1, d)
    \/ \E d \in Depths : ExecuteStart(1, d)
    \/ \E e \in ExecIds : GetTools(e)
    \/ \E e \in ExecIds : RetrieveContextDone(e)
    \/ \E e \in ExecIds : GetHistory(e)
    \/ \E e \in ExecIds : ModelCall(e)
    \/ \E e \in ExecIds : ModelCallError(e)
    \/ \E e \in ExecIds : ToolNotFound(e)
    \/ \E e \in ExecIds : ToolExecuted(e)
    \/ \E e \in ExecIds : LoopExit(e)
    \/ \E e \in ExecIds : AppendUser(e)
    \/ \E e \in ExecIds : AppendAssistant(e)
    \/ \E e \in ExecIds : StoreInteraction(e)
    \/ \E e \in ExecIds : CollaboratorError(e)
    \/ \E e \in ExecIds : CancelExecution(e)

SpecTurn == InitTurn /\ [][NextTurn]_vars

(***************************************************************************)
(* Specification of cancelExecution: one turn runs while a second one is   *)
(* registered and awaits its tools; any id may be cancelled at any moment  *)
(***************************************************************************)
InitCancel == OrchIdle /\ TurnInit /\ CtxInit /\ ExtInit

NextCancel ==
    \/ \E e \in ExecIds : ExecuteStart(e, 0)
    \/ GetTools(1)
    \/ RetrieveContextDone(1)
    \/ GetHistory(1)
    \/ ModelCall(1)
    \/ ModelCallError(1)
    \/ ToolNotFound(1)
    \/ ToolExecuted(1)
    \/ LoopExit(1)
    \/ AppendUser(1)
    \/ AppendAssistant(1)
    \/ StoreInteraction(1)
    \/ CollaboratorError(1)
    \/ \E e \in ExecIds : CancelExecution(e)

SpecCancel == InitCancel /\ [][NextCancel]_vars

(***************************************************************************)
(* Specification of the registry: one turn runs from call to end while a   *)
(* second call of execute is rejected, or registered and ended by its      *)
(* first collaborator raising; any id may be cancelled at any moment       *)
(***************************************************************************)
InitRegistry == OrchIdle /\ TurnInit /\ CtxInit /\ ExtInit

NextRegistry ==
    \/ \E e \in ExecIds : ExecuteRejected(e, maxRecursionDepth)
    \/ \E e \in ExecIds : ExecuteStart(e, 0)
    \/ GetTools(1)
    \/ RetrieveContextDone(1)
    \/ GetHistory(1)
    \/ ModelCall(1)
    \/ ModelCallError(1)
    \/ ToolNotFound(1)
    \/ ToolExecuted(1)
    \/ LoopExit(1)
    \/ AppendUser(1)
    \/ AppendAssistant(1)
    \/ StoreInteraction(1)
    \/ \E e \in ExecIds : CollaboratorError(e)
    \/ \E e \in ExecIds : CancelExecution(e)

SpecRegistry == InitRegistry /\ [][NextRegistry]_vars

(***************************************************************************)
(* Specification of a shared session: the turns of two subtasks of one     *)
(* parallel wave run concurrently under asyncio.gather with the session id *)
(* of the request; no collaborator raises. The first turn runs whole; the  *)
(* second is followed when its first model call gives the final response   *)
(***************************************************************************)
InitSession == OrchIdle /\ TurnInit /\ CtxInit /\ ExtInit

NextSession ==
    \/ \E e \in ExecIds : ExecuteStart(e, 1)
    \/ \E e \in ExecIds : GetTools(e)
    \/ \E e \in ExecIds : RetrieveContextDone(e)
    \/ \E e \in ExecIds : GetHistory(e)
    \/ \E e \in ExecIds : ModelCall(e)
    \/ ToolNotFound(1)
    \/ ToolExecuted(1)
    \/ LoopExit(1)
    \/ \E e \in ExecIds : AppendUser(e)
    \/ \E e \in ExecIds : AppendAssistant(e)
    \/ \E e \in ExecIds : StoreInteraction(e)

SpecSession == InitSession /\ [][NextSession]_vars

(***************************************************************************)
(* Specification of agent resolution for one tenant whose table is empty   *)
(***************************************************************************)
InitAgents == OrchIdle /\ TurnInit /\ CtxInit /\ ExtInit

NextAgents ==
    \/ \E c \in Callers, ty \in AgentTypes : ResolveAgent(c, ty)
    \/ \E c \in Callers, ty \in AgentTypes : RegisterRaises(c, ty)

SpecAgents == InitAgents /\ [][NextAgents]_vars

(***************************************************************************)
(* Specification of the async tasks: the submitting API process and the    *)
(* worker run as separate processes on the queue and the sessions table    *)
(***************************************************************************)
InitAsync == OrchIdle /\ TurnInit /\ CtxInit /\ ExtInit

NextAsync ==
    \/ \E k \in AsyncTasks : SendMessage(k)
    \/ \E k \in AsyncTasks : PutIdleItem(k)
    \/ \E k \in AsyncTasks : SubmitRaises(k)
    \/ \E k \in AsyncTasks : StartProcessing(k)
    \/ \E k \in AsyncTasks : FinishProcessing(k)
    \/ \E k \in AsyncTasks : FailProcessing(k)

SpecAsync == InitAsync /\ [][NextAsync]_vars

(***************************************************************************)
(* Specification of the versions of one tool of one tenant, used through   *)
(* one ToolRegistry with its ToolVersioning cache                          *)
(***************************************************************************)
InitTools == OrchIdle /\ TurnInit /\ CtxInit /\ ExtInit

NextTools ==
    \/ \E v \in Versions : Register(v)
    \/ \E v \in Versions : Deactivate(v)
    \/ DeactivateLatest
    \/ \E includeInactive \in BOOLEAN : GetVersionHistory(includeInactive)
    \/ GetLatestVersion

SpecTools == InitTools /\ [][NextTools]_vars

(***************************************************************************)
(* Specification of one call of MemoryManager.retrieveContext              *)
(***************************************************************************)
InitCtx == OrchIdle /\ TurnInit /\ CtxInit /\ ExtInit

NextCtx ==
    \/ RetrieveContext
    \/ WorkingReturned
    \/ EpisodicReturned
    \/ SemanticReturned
    \/ ProceduralReturned

SpecCtx == InitCtx /\ [][NextCtx]_vars

\* the planner and the executor keep running until they return or raise
SpecFair == Init /\ [][Next]_vars /\ WF_vars(Next)

(***************************************************************************)
(* The dependency graph of the decomposition                               *)
(***************************************************************************)
\* the tasks named by the dependencies of the tasks of S
DepsOfSet(S) == UNION {deps[t] \cap tasks : t \in S}

RECURSIVE ReachWithin(_, _)
ReachWithin(S, k) ==
    IF k = 0 THEN {} ELSE DepsOfSet(S) \cup ReachWithin(DepsOfSet(S), k - 1)

\* the tasks t depends on, directly or not
Descendants(t) == ReachWithin({t}, NumTasks)

OnCycle(t) == t \in Descendants(t)

\* every dependency names a task of the decomposition and no task is on a cycle
Acyclic ==
    \A t \in tasks : deps[t] \subseteq tasks /\ ~OnCycle(t)

HasCycle == \E t \in tasks : OnCycle(t)

\* tasks that can never be scheduled: on a cycle, naming an unknown id, or
\* depending on such a task
Unschedulable ==
    {t \in tasks : \E u \in {t} \cup Descendants(t) :
                      OnCycle(u) \/ ~(deps[u] \subseteq tasks)}

\* the index of the wave that holds t (0: in no wave)
WaveOf(t) ==
    IF \E i \in 1..Len(waves) : t \in Range(waves[i])
    THEN CHOOSE i \in 1..Len(waves) : t \in Range(waves[i])
    ELSE 0

Scheduled == {t \in tasks : WaveOf(t) > 0}

Planned ==
    \/ opc \in {"sequential", "parallel", "returned"}
    \/ opc \in {"raised", "done"} /\ tasks # {}

InFlight == {t \in tasks : tstate[t] = "running"}

(***************************************************************************)
(* Claims                                                                  *)
(***************************************************************************)
\* C1: for an acyclic task set, while a task of wave N+1 is executing every
\* task of every earlier wave has settled, and so has each of its dependencies.
C1_WaveOrder ==
    Acyclic =>
        \A t \in InFlight :
            /\ \A u \in tasks :
                  (WaveOf(u) > 0 /\ WaveOf(u) < WaveOf(t)) => tstate[u] = "settled"
            /\ \A d \in deps[t] : tstate[d] = "settled"

\* C2: for an acyclic graph, every task that has been placed in a wave has all
\* its dependencies in waves of strictly smaller index, and once planning is
\* over every task has a wave.
C2_DepsInEarlierWave ==
    Acyclic =>
        /\ \A t \in Scheduled : \A d \in deps[t] :
              WaveOf(d) > 0 /\ WaveOf(d) < WaveOf(t)
        /\ Planned => Scheduled = tasks

C2_Witness ==
    /\ Planned
    /\ Acyclic
    /\ \E t \in tasks : deps[t] # {} /\ WaveOf(t) = 3

\* C3: with a cycle in the graph planning terminates; from then on the
\* scheduled tasks are exactly those that neither lie on a cycle nor depend on
\* one (nor on an unknown id), the others are left in remaining, and the
\* circular-dependency warning has been logged.
C3_PlannedWithCycle ==
    /\ Planned
    /\ warned
    /\ Scheduled = tasks \ Unschedulable
    /\ remaining = Unschedulable
    /\ \A t \in Unschedulable : t \notin Range(plan.sequential) \cup Range(plan.parallel)

C4_BoundedParallelism == Cardinality(InFlight) <= maxParallelAgents

C4_Witness ==
    /\ opc = "parallel"
    /\ Cardinality(InFlight) = maxParallelAgents
    /\ \E t \in tasks : tstate[t] = "waiting"

\* C5: a subtask of the parallel bucket that raises does not stop the gather;
\* when the executor returns, the raising subtask has an error entry and status
\* failed and every sibling has settled and has its own result recorded.
C5_ParallelIsolation ==
    \A t \in Range(plan.parallel) :
        outcome[t] = "raised" =>
            /\ opc \in {"parallel", "returned"}
            /\ opc = "returned" =>
                  /\ results[t] = [kind |-> "error", of |-> t, status |-> "none"]
                  /\ taskStatus[t] = "failed"
                  /\ \A u \in Range(plan.parallel) \ {t} :
                        /\ tstate[u] = "settled"
                        /\ results[u].of = u
                        /\ outcome[u] # "raised" =>
                              results[u] = [kind |-> "result", of |-> u,
                                            status |-> outcome[u]]

C5_Witness ==
    /\ opc = "returned"
    /\ \E t, u \in Range(plan.parallel) :
          outcome[t] = "raised" /\ outcome[u] = "completed"

\* C6: a sequential subtask whose execution failed (its turn came back Failed
\* or raised) has an entry in results, and the plan goes on.
C6_SequentialFailureRecorded ==
    \A t \in Range(plan.sequential) :
        outcome[t] \in {"failed", "raised"} =>
            /\ results[t] # Absent
            /\ opc # "raised"

\* the first i-1 responses of call e carry tool calls and the i-th carries none
FinalAnswerAt(e, i) ==
    /\ Len(responses[e]) >= i
    /\ \A j \in 1..(i - 1) : responses[e][j].toolCalls # <<>>
    /\ responses[e][i].toolCalls = <<>>

\* every one of the maxIterations responses of call e carries a tool call
OnlyToolUse(e) ==
    /\ Len(responses[e]) = maxIterations
    /\ \A j \in 1..maxIterations : responses[e][j].toolCalls # <<>>

\* C7: a call with depth >= maxRecursionDepth ends at once with
\* RecursionDepthExceeded: no model call, tool call, tool resolution or memory
\* call was issued, no execution record exists and nothing was registered.
C7_DepthRejectedAtOnce ==
    \A e \in ExecIds :
        (xpc[e] # "idle" /\ depth[e] >= maxRecursionDepth) =>
            /\ xpc[e] = "raised"
            /\ raisedExc[e] = "RecursionDepthExceeded"
            /\ modelCalls[e] = 0
            /\ dispatched[e] = 0
            /\ collabCalls[e] = 0
            /\ execution[e].status = "none"
            /\ e \notin activeExecutions
            /\ \A k \in 1..Len(conversation) : conversation[k].from # e
            /\ \A k \in 1..Len(episodic) : episodic[k].from # e

C7_Witness ==
    /\ xpc[1] = "raised"
    /\ depth[1] = maxRecursionDepth
    /\ raisedExc[1] = "RecursionDepthExceeded"

\* C9: if the first i-1 responses carry tool calls and the i-th carries none
\* (1 <= i <= maxIterations), exactly i model calls were issued and the turn
\* that is returned (without having been cancelled) is Completed with the i-th
\* response's text as its answer.
C9_FinalAnswerCompletes ==
    \A e \in ExecIds : \A i \in 1..maxIterations :
        FinalAnswerAt(e, i) =>
            /\ modelCalls[e] = i
            /\ (xpc[e] = "returned" /\ e \notin cancelled) =>
                  /\ execution[e].status = "completed"
                  /\ execution[e].agentResponse = responses[e][i].text

C8_WithinBudget ==
    cpc = "returned" => context.totalTokens <= maxTokens

\* C11: once the cumulative token usage of a turn exceeds the ceiling the turn
\* has ended: no model or tool call is outstanding or follows, the exception
\* that leaves execute is TokenLimitExceeded and the record is marked failed.
C11_TokenCeilingRaises ==
    \A e \in ExecIds :
        totalTokens[e] > maxTokenLimit =>
            /\ xpc[e] = "raised"
            /\ modelCalls[e] = Len(responses[e])
            /\ pending[e] = <<>>
            /\ execution[e].status = "failed"
            /\ raisedExc[e] = "TokenLimitExceeded"

\* the step of call e that handles a request for a tool the agent does not have
HandlesUnknownTool(e) ==
    /\ xpc[e] = "tool"
    /\ pending[e] # <<>>
    /\ Head(pending[e]).name \notin tools[e]
    /\ pending'[e] # pending[e]

\* that step records the in-band error for the request id, in the record and
\* in the messages, raises nothing and leaves the status alone
UnknownToolRecorded(e) ==
    /\ execution'[e].toolCalls =
          Append(execution[e].toolCalls,
                 [id |-> Head(pending[e]).id, name |-> Head(pending[e]).name,
                  result |-> "error: tool not found"])
    /\ messages'[e] =
          Append(messages[e],
                 [role |-> "user", type |-> "tool_result", id |-> Head(pending[e]).id,
                  text |-> "error: tool not found", calls |-> <<>>])
    /\ execution'[e].status = execution[e].status
    /\ raisedExc'[e] = "none"
    /\ xpc'[e] = IF pending'[e] = <<>> THEN "loop" ELSE "tool"

\* C12 as claimed: a request for a tool that is not among the resolved tools
\* gets the in-band error result, nothing is raised, the turn is not failed,
\* and once the response's requests are handled a further model call follows.
C12_UnknownToolNextCall ==
    [][\A e \in ExecIds :
          HandlesUnknownTool(e) =>
              /\ UnknownToolRecorded(e)
              /\ pending'[e] = <<>> => iterations'[e] < maxIterations]_vars

\* C12 as amended: the same, but a further model call follows only when the
\* iteration was not the last one the ceiling allows.
C12_UnknownToolInBand ==
    [][\A e \in ExecIds :
          HandlesUnknownTool(e) =>
              /\ UnknownToolRecorded(e)
              /\ (pending'[e] = <<>> /\ iterations[e] < maxIterations) =>
                    (xpc'[e] = "loop" /\ iterations'[e] < maxIterations)]_vars

C12_Witness ==
    /\ xpc[1] = "loop"
    /\ iterations[1] < maxIterations
    /\ execution[1].status = "running"
    /\ execution[1].toolCalls # <<>>
    /\ execution[1].toolCalls[Len(execution[1].toolCalls)].result = "error: tool not found"
    /\ execution[1].toolCalls[Len(execution[1].toolCalls)].name \notin tools[1]

\* C13: every call that got past the depth check and has ended, whatever its
\* outcome, has appended the user message to the conversation and written an
\* episodic record, and has appended the assistant's text when there is one.
C13_TrailOnEveryOutcome ==
    \A e \in ExecIds :
        (xpc[e] \in {"returned", "raised"} /\ execution[e].status # "none") =>
            /\ \E k \in 1..Len(conversation) :
                  conversation[k].from = e /\ conversation[k].role = "user"
            /\ \E k \in 1..Len(episodic) : episodic[k].from = e
            /\ Truthy(execution[e].agentResponse) =>
                  \E k \in 1..Len(conversation) :
                      /\ conversation[k].from = e
                      /\ conversation[k].role = "assistant"
                      /\ conversation[k].content = execution[e].agentResponse

FinalStatuses == {"completed", "failed", "cancelled"}

\* C16: the status of a turn starts running, changes only to completed, failed
\* or cancelled, never changes once it is one of these, and every turn that is
\* returned is in one of them.
C16_StatusFinal ==
    [][\A e \in ExecIds :
          /\ execution[e].status = "none" => execution'[e].status \in {"none", "running"}
          /\ execution[e].status = "running" =>
                execution'[e].status \in {"running"} \cup FinalStatuses
          /\ execution[e].status \in FinalStatuses =>
                execution'[e].status = execution[e].status
          /\ xpc'[e] = "returned" => execution'[e].status \in FinalStatuses]_vars

\* the exception that left orchestrate is the one a sequential subtask raised
SubtaskFailurePropagated ==
    /\ opc = "raised"
    /\ seqIdx <= Len(plan.sequential)
    /\ outcome[plan.sequential[seqIdx]] = "raised"

\* C14: the payload orchestrate returns has a response string that is not
\* null, the tasks, one result for every task and the plan, and the failure
\* of a subtask never leaves orchestrate as an exception.
C14_PayloadAlways ==
    /\ payload.kind = "returned" =>
          /\ payload.response # "None"
          /\ payload.tasks = tasks
          /\ \A t \in payload.tasks :
                payload.results[t] # Absent /\ payload.results[t].of = t
          /\ payload.executionPlan = plan
    /\ ~SubtaskFailurePropagated

\* the answers to the decomposition prompt that fail to parse or to validate
ParseFailures ==
    {"notJson", "notObject", "elementNotObject", "missingField", "unknownAgentType",
     "invalidField"}

\* C15: whenever the model's decomposition answer fails to parse or to
\* validate, _decomposeTask yields the empty list and orchestrate goes on in
\* single-agent mode; nothing is raised.
C15_DecompositionFailsOpen ==
    [][(opc = "decompose" /\ modelOutput' \in ParseFailures) =>
          (tasks' = {} /\ opc' = "single")]_vars

\* C17: when the executor returns, results has an entry for exactly the tasks
\* of the plan, each keyed by its task and holding the outcome of that task's
\* own execution; and an entry, once written, is never written again.
C17_OneResultPerTask ==
    /\ [](opc = "returned" =>
            \A t \in TaskIds :
                IF t \in Range(ExecutionOrder(plan))
                THEN results[t] = (IF outcome[t] = "raised"
                                   THEN ErrorEntry(t) ELSE TaskResult(t, outcome[t]))
                ELSE results[t] = Absent)
    /\ [][\A t \in TaskIds : results[t] # Absent => results'[t] = results[t]]_vars

C17_Witness ==
    /\ opc = "returned"
    /\ plan.sequential # <<>>
    /\ \E t, u \in Range(plan.parallel) :
          outcome[t] = "failed" /\ outcome[u] = "completed"

\* the position of task t in the order the executor starts the plan's tasks
StartPosition(t) ==
    CHOOSE i \in 1..Len(ExecutionOrder(plan)) : ExecutionOrder(plan)[i] = t

\* C18: for tasks 1 and 2 without dependencies and task 3 depending on both,
\* the plan is the parallel wave {1, 2} followed by the sequential wave {3},
\* and in the plan wave 1 comes before wave 2.
C18_TwoWavePlan ==
    (/\ Planned
     /\ tasks = {1, 2, 3}
     /\ deps[1] = {} /\ deps[2] = {} /\ deps[3] = {1, 2}) =>
        /\ Len(waves) = 2
        /\ Range(waves[1]) = {1, 2}
        /\ waves[2] = <<3>>
        /\ Range(plan.parallel) = {1, 2}
        /\ plan.sequential = <<3>>
        /\ StartPosition(1) < StartPosition(3)
        /\ StartPosition(2) < StartPosition(3)

\* the ranking _rankMemories gives the records the vector store returned
Ranked == RankMemories(semanticMemories)

SameWeight(a, b) == a.importance = b.importance /\ a.confidence = b.confidence

\* C19 as claimed: of two ranked records of equal importance and confidence
\* the more recent one has a recency and a relevance at least as high and
\* stands before the older one in the ranking.
C19_RecentRanksNoLater ==
    LET r == Ranked IN
    \A i, j \in 1..Len(r) :
        (SameWeight(r[i], r[j]) /\ r[i].age < r[j].age) =>
            /\ RecencyScaled(r[i].age) >= RecencyScaled(r[j].age)
            /\ RelevanceScaled(r[i]) >= RelevanceScaled(r[j])
            /\ i < j

\* C19 as amended: the more recent record has a recency and a relevance at
\* least as high; it stands before the older one when its relevance is
\* strictly higher, and records of equal relevance keep their retrieval order.
C19_RecentRanksAtLeastAsHigh ==
    LET r == Ranked IN
    \A i, j \in 1..Len(r) :
        (SameWeight(r[i], r[j]) /\ r[i].age < r[j].age) =>
            /\ RecencyScaled(r[i].age) >= RecencyScaled(r[j].age)
            /\ RelevanceScaled(r[i]) >= RelevanceScaled(r[j])
            /\ RelevanceScaled(r[i]) > RelevanceScaled(r[j]) => i < j
            /\ RelevanceScaled(r[i]) = RelevanceScaled(r[j]) =>
                  (i < j <=> r[i].idx < r[j].idx)

C19_Witness ==
    /\ cpc = "procedural"
    /\ Len(Ranked) = 2
    /\ SameWeight(Ranked[1], Ranked[2])
    /\ \/ Ranked[1].age < Ranked[2].age /\ Ranked[1].idx > Ranked[2].idx
       \/ Ranked[1].age > Ranked[2].age

\* C20: the recency score of every record, whatever its age, lies in [0, 1].
C20_RecencyInUnitRange ==
    \A i \in 1..Len(semanticMemories) :
        /\ RecencyScaled(semanticMemories[i].age) >= 0
        /\ RecencyScaled(semanticMemories[i].age) <= 150 * decayThresholdDays

\* the number of tasks of the wave that holds t
WaveSize(t) == Len(waves[WaveOf(t)])

\* C21: while a task of a parallel wave is in flight, the number of tasks in
\* flight is at most min(size of that wave, maxParallelAgents).
C21_WaveBoundedParallelism ==
    \A t \in InFlight :
        t \in Range(plan.parallel) =>
            Cardinality(InFlight) <= Min(WaveSize(t), maxParallelAgents)

\* the places <<wave, index>> at which task t stands in the waves
WavePlaces(t) ==
    {p \in (1..Len(waves)) \X (1..NumTasks) :
        p[2] <= Len(waves[p[1]]) /\ waves[p[1]][p[2]] = t}

\* the places at which task t stands in the two buckets of the plan
PlanPlaces(t) ==
    {i \in 1..Len(ExecutionOrder(plan)) : ExecutionOrder(plan)[i] = t}

\* C22: once the plan is built, the task of every one-task wave is in the
\* sequential bucket only, the tasks of every larger wave are in the parallel
\* bucket only, and every scheduled task stands at exactly one place of the
\* waves and of the plan.
C22_WaveClassification ==
    Planned =>
        /\ \A i \in 1..Len(waves) :
              /\ Len(waves[i]) >= 1
              /\ Len(waves[i]) = 1 =>
                    /\ Range(waves[i]) \subseteq Range(plan.sequential)
                    /\ Range(waves[i]) \cap Range(plan.parallel) = {}
              /\ Len(waves[i]) > 1 =>
                    /\ Range(waves[i]) \subseteq Range(plan.parallel)
                    /\ Range(waves[i]) \cap Range(plan.sequential) = {}
        /\ \A t \in Scheduled :
              Cardinality(WavePlaces(t)) = 1 /\ Cardinality(PlanPlaces(t)) = 1
        /\ Range(ExecutionOrder(plan)) = Scheduled

C22_Witness ==
    /\ Planned
    /\ \E i, j \in 1..Len(waves) : Len(waves[i]) = 1 /\ Len(waves[j]) > 1
    /\ plan.sequential # <<>>
    /\ plan.parallel # <<>>

\* C23: within every wave the tasks stand by declared priority descending
\* and, among equal priorities, in the order of the input list.
C23_PriorityOrder ==
    \A i \in 1..Len(waves) : \A k, l \in 1..Len(waves[i]) :
        k < l =>
            \/ Priority(waves[i][k]) > Priority(waves[i][l])
            \/ /\ Priority(waves[i][k]) = Priority(waves[i][l])
               /\ waves[i][k] < waves[i][l]

\* what the responses rs must have added to the message list once they are
\* handled: for every response with tool calls the model's raw turn, then one
\* tool-result entry per request, with the request's id, in request order
RECURSIVE ExpectedExchange(_)
ExpectedExchange(rs) ==
    IF rs = <<>> THEN <<>>
    ELSE (IF Head(rs).toolCalls = <<>> THEN <<>>
          ELSE <<[role |-> "assistant", type |-> "tool_use",
                  id |-> <<Head(rs).toolCalls[1].id[1], 0>>, calls |-> Head(rs).toolCalls]>>
               \o [k \in 1..Len(Head(rs).toolCalls) |->
                      [role |-> "user", type |-> "tool_result",
                       id |-> Head(rs).toolCalls[k].id, calls |-> <<>>]])
         \o ExpectedExchange(Tail(rs))

\* the requests of the responses rs, in order
RECURSIVE RequestsOf(_)
RequestsOf(rs) ==
    IF rs = <<>> THEN <<>> ELSE Head(rs).toolCalls \o RequestsOf(Tail(rs))

\* a message without its text
Shape(msg) == [role |-> msg.role, type |-> msg.type, id |-> msg.id, calls |-> msg.calls]

\* C24: whenever the loop is about to test its condition (before the next
\* model call), the message list ends with, for every response so far, the
\* model's raw turn followed by one tool-result entry per request, carrying
\* the request ids in request order, and toolCalls has one entry per request.
C24_OneResultPerRequest ==
    \A e \in ExecIds :
        xpc[e] = "loop" =>
            LET exp == ExpectedExchange(responses[e])
                req == RequestsOf(responses[e])
                n == Len(messages[e])
            IN /\ n > Len(exp)
               /\ [k \in 1..Len(exp) |-> Shape(messages[e][n - Len(exp) + k])] = exp
               /\ \A k \in 1..(n - Len(exp)) : messages[e][k].type = "text"
               /\ [k \in 1..Len(execution[e].toolCalls) |->
                      [id |-> execution[e].toolCalls[k].id,
                       name |-> execution[e].toolCalls[k].name]] = req

C24_Witness ==
    /\ xpc[1] = "loop"
    /\ Len(responses[1]) = 1
    /\ Len(responses[1][1].toolCalls) = 2
    /\ execution[1].toolCalls[1].result # execution[1].toolCalls[2].result

\* the step of call e that handles a request for a tool the agent has
HandlesKnownTool(e) ==
    /\ xpc[e] = "tool"
    /\ pending[e] # <<>>
    /\ Head(pending[e]).name \in tools[e]
    /\ pending'[e] # pending[e]

\* C25: the step that dispatches a requested tool, also when the executor
\* raises, records a result for the request id (the error as an in-band
\* result), raises nothing, leaves the turn's status alone and goes on with
\* the remaining requests of the response.
C25_ToolErrorContained ==
    [][\A e \in ExecIds :
          HandlesKnownTool(e) =>
              /\ dispatched'[e] = dispatched[e] + 1
              /\ \E result \in {"result", "error: exception"} :
                    /\ execution'[e].toolCalls =
                          Append(execution[e].toolCalls,
                                 [id |-> Head(pending[e]).id,
                                  name |-> Head(pending[e]).name, result |-> result])
                    /\ messages'[e] =
                          Append(messages[e],
                                 [role |-> "user", type |-> "tool_result",
                                  id |-> Head(pending[e]).id, text |-> result,
                                  calls |-> <<>>])
              /\ execution'[e].status = execution[e].status
              /\ raisedExc'[e] = "none"
              /\ pending'[e] = Tail(pending[e])
              /\ xpc'[e] = IF pending'[e] = <<>> THEN "loop" ELSE "tool"]_vars

C25_Witness ==
    /\ xpc[1] = "loop"
    /\ execution[1].status = "running"
    /\ Len(execution[1].toolCalls) = 2
    /\ execution[1].toolCalls[1].result = "error: exception"
    /\ execution[1].toolCalls[2].result = "result"
    /\ execution[1].toolCalls[1].id[1] = execution[1].toolCalls[2].id[1]

\* C26: the semantic store is searched only when, after the working and the
\* episodic tier, the remaining budget (maxTokens minus totalTokens) is above
\* 70% of the budget; otherwise the semantic tier of the bundle is empty.
C26_SemanticNeedsRemainingBudget ==
    LET afterEpisodic == context.totalTokens - SumTokens(context.semantic)
    IN  (cpc = "semantic" \/ context.semantic # <<>>) =>
            10 * (maxTokens - afterEpisodic) > 7 * maxTokens

\* the tokens of the first k records of a list
TokensOfFirst(records, k) == SumTokens(SubSeq(records, 1, k))

\* C27: once the episodic tier is done it is a prefix of the list the episodic
\* store returned, made of whole records; every record of it kept the
\* cumulative total under the budget, and the first record left out did not
\* fit, whatever comes after it.
C27_EpisodicPrefix ==
    cpc \in {"semantic", "procedural", "returned"} =>
        LET ep == context.episodic
            base == CountTokens(context.working)
        IN /\ Len(ep) <= Len(recentEpisodic)
           /\ \A k \in 1..Len(ep) :
                 /\ ep[k] = recentEpisodic[k]
                 /\ base + TokensOfFirst(recentEpisodic, k) < maxTokens
           /\ Len(ep) < Len(recentEpisodic) =>
                 ~(base + TokensOfFirst(recentEpisodic, Len(ep) + 1) < maxTokens)

C27_Witness ==
    /\ cpc = "returned"
    /\ context.episodic = <<>>
    /\ Len(recentEpisodic) = 2
    /\ CountTokens(context.working) + CountTokens(recentEpisodic[2].chars) < maxTokens

\* C28: the ranking is a permutation of the records the store returned, in
\* descending order of relevance, and records of equal relevance keep their
\* retrieval order.
C28_RankedDescendingStable ==
    LET r == Ranked IN
    /\ Len(r) = Len(semanticMemories)
    /\ Range(r) = Range(semanticMemories)
    /\ \A i, j \in 1..Len(r) :
          i < j =>
              /\ RelevanceScaled(r[i]) >= RelevanceScaled(r[j])
              /\ RelevanceScaled(r[i]) = RelevanceScaled(r[j]) => r[i].idx < r[j].idx

C28_Witness ==
    /\ cpc = "procedural"
    /\ Len(Ranked) = 2
    /\ Ranked[1].idx = 2
    /\ Ranked[1].age > Ranked[2].age

\* _decomposeTask returned the empty list
EmptyDecomposition ==
    /\ modelOutput \notin {"none", "valid"}
    /\ DecomposeRaises(modelOutput) = "none" \/ DecomposeCaught(DecomposeRaises(modelOutput))

\* orchestrate has returned or raised
OrchestrateEnded == opc \in {"done", "raised"}

\* C29: when orchestrate has ended after an empty decomposition it ran the
\* agent loop exactly once, executed no subtask and issued no synthesis call;
\* when it has ended after a non-empty decomposition it issued exactly one
\* synthesis call, and a synthesis call is issued only when every scheduled
\* subtask has settled.
C29_OneLoopOrOneSynthesis ==
    /\ (OrchestrateEnded /\ EmptyDecomposition) =>
          /\ loopCalls = [single |-> 1, synthesis |-> 0]
          /\ \A t \in TaskIds : tstate[t] = "idle"
    /\ (OrchestrateEnded /\ tasks # {}) =>
          loopCalls = [single |-> 0, synthesis |-> 1]
    /\ loopCalls.synthesis > 0 =>
          \A t \in Scheduled : tstate[t] = "settled"

\* a step in which cancelExecution(e) returned
CancelReturned(e) == cancelResult'[e] # cancelResult[e]

\* what a turn's loop works on, apart from the status of its record
loopVars == <<xpc, depth, tools, messages, totalTokens, iterations, pending, responses,
              modelCalls, dispatched, collabCalls, raisedExc, conversation, episodic>>

\* C30: cancelExecution(id) for a registered id marks that record cancelled and
\* changes nothing else of it, removes that id and no other from the registry,
\* leaves every other record as it was, returns True and leaves the position and
\* the working state of every loop untouched; for an id that is not registered
\* (a second cancel of the same id included) it returns False and changes
\* nothing.
C30_CancelFrame ==
    [][\A e \in ExecIds :
          CancelReturned(e) =>
              /\ UNCHANGED loopVars
              /\ IF e \in activeExecutions
                 THEN /\ cancelResult'[e] = "True"
                      /\ execution'[e] = [execution[e] EXCEPT !.status = "cancelled"]
                      /\ \A o \in ExecIds \ {e} : execution'[o] = execution[o]
                      /\ activeExecutions' = activeExecutions \ {e}
                 ELSE /\ cancelResult'[e] = "False"
                      /\ UNCHANGED <<execution, activeExecutions>>]_vars

C30_Witness ==
    /\ 1 \in cancelled
    /\ cancelResult[1] = "False"
    /\ 2 \in activeExecutions
    /\ execution[2].status = "running"
    /\ xpc[1] = "returned"

\* the sum of usage.total_tokens over a list of model responses
RECURSIVE SumUsage(_)
SumUsage(rs) == IF rs = <<>> THEN 0 ELSE Head(rs).usage + SumUsage(Tail(rs))

\* C31: every turn that execute returned, completed or failed, carries in
\* tokensUsed the sum of the token usage of all model calls of the turn.
C31_TokensUsedIsTotal ==
    \A e \in ExecIds :
        xpc[e] = "returned" => execution[e].tokensUsed = SumUsage(responses[e])

\* the gather of the parallel bucket is running
GatherRunning == opc = "parallel"

\* C32: a slot of the limiter is released whenever a running task settles, by
\* returning or by raising; every task that waits for a slot is eventually
\* admitted; and, agent executions ending, every task of the bucket eventually
\* settles and the executor returns.
C32_SlotsFreedAndWaveSettles ==
    /\ [][\A t \in TaskIds :
             (GatherRunning /\ tstate[t] = "running" /\ tstate'[t] = "settled") =>
                 semaphore' = semaphore + 1]_vars
    /\ \A t \in TaskIds :
          (GatherRunning /\ tstate[t] = "waiting") ~> (tstate[t] \in {"running", "settled"})
    /\ GatherRunning ~>
          (opc = "returned" /\ \A t \in Range(plan.parallel) : tstate[t] = "settled")

C32_Witness ==
    /\ GatherRunning
    /\ Len(plan.parallel) > maxParallelAgents
    /\ Cardinality(InFlight) = maxParallelAgents
    /\ \E t \in Range(plan.parallel) : tstate[t] = "settled" /\ outcome[t] = "raised"

\* the positions of a call of execute that has not begun or is over
NotRunning == {"idle", "returned", "raised"}

\* C33: the registry holds only turns that passed the depth check and have
\* neither returned nor raised (so it is empty once every call has ended), it
\* holds every such turn that was not cancelled, and the step that ends a call
\* takes that call's id, and no other, out of the registry.
C33_RegistryExact ==
    /\ [](\A e \in activeExecutions : xpc[e] \notin NotRunning)
    /\ [](\A e \in ExecIds :
             (xpc[e] \notin NotRunning /\ e \notin cancelled) => e \in activeExecutions)
    /\ [][\A e \in ExecIds :
             (xpc[e] \notin NotRunning /\ xpc'[e] \in NotRunning) =>
                 activeExecutions' = activeExecutions \ {e}]_vars

C33_Witness ==
    /\ xpc[1] = "returned"
    /\ 1 \in cancelled
    /\ activeExecutions = {2}
    /\ execution[2].status = "running"

\* t names, in its dependencies, an id that no task of the decomposition has
NamesUnknown(t) == ~(deps[t] \subseteq tasks)

\* u names an unknown id or depends, directly or not, on a task that does
DependsOnUnknown(u) == \E t \in {u} \cup Descendants(u) : NamesUnknown(t)

\* a task that names an unknown id is in no wave and in no bucket, is never
\* executed, has no entry in results and, once planning is over, is left in
\* remaining with the circular-dependency warning logged
UnknownLeftOut ==
    \A t \in tasks :
        NamesUnknown(t) =>
            /\ WaveOf(t) = 0
            /\ t \notin Range(ExecutionOrder(plan))
            /\ tstate[t] = "idle"
            /\ results[t] = Absent
            /\ Planned => (t \in remaining /\ warned)

\* C34 as stated: a task that names an unknown id is left out, and in a
\* decomposition with such a task every task that does not depend on one of
\* them is scheduled once planning is over.
C34_OnlyDependentsLeftOut ==
    /\ UnknownLeftOut
    /\ (Planned /\ \E t \in tasks : NamesUnknown(t)) =>
          \A u \in tasks : ~DependsOnUnknown(u) => WaveOf(u) > 0

\* C34 amended: a task that names an unknown id is left out, and every task
\* that neither depends on such a task nor lies on or depends on a cycle is
\* scheduled once planning is over.
C34_UnknownDepLeftOut ==
    /\ UnknownLeftOut
    /\ Planned => \A u \in tasks \ Unschedulable : WaveOf(u) > 0

C34_Witness ==
    /\ opc = "returned"
    /\ \E t, u, v \in tasks :
          /\ NamesUnknown(t)
          /\ t \in deps[u] /\ ~NamesUnknown(u) /\ WaveOf(u) = 0
          /\ ~DependsOnUnknown(v) /\ results[v] # Absent

\* C35: when the executor has returned, a subtask of the plan has status
\* completed only if its agent turn ended Completed, and has status failed
\* whenever its agent turn ended Failed or raised.
C35_StatusFollowsTurn ==
    opc = "returned" =>
        \A t \in Range(ExecutionOrder(plan)) :
            /\ taskStatus[t] = "completed" => outcome[t] = "completed"
            /\ outcome[t] \in {"failed", "raised"} => taskStatus[t] = "failed"

\* the items of the tenant's table that are agents of type ty (the table
\* starts empty: every item is a default agent)
DefaultsOf(ty) == {i \in 1..Len(agentTable) : agentTable[i].type = ty}

\* C36: for every agent type at most one default agent is created and
\* registered for the tenant.
C36_OneDefaultPerType ==
    \A ty \in AgentTypes : Cardinality(DefaultsOf(ty)) <= 1

\* the worker has written the status of the task
WorkerWrote(k) == asyncItem[k].status \in {"running", "completed", "failed"}

\* C37: once the worker has set the stored status of an async task to running
\* or to a terminal value, the status does not read idle again, a terminal
\* status stays, and the stored response is kept.
C37_StatusMovesForward ==
    [][\A k \in AsyncTasks :
          WorkerWrote(k) =>
              /\ asyncItem'[k].status \in {"running", "completed", "failed"}
              /\ asyncItem[k].status # "running" => asyncItem'[k] = asyncItem[k]]_vars

\* C38: a version that has been registered once is rejected by every later
\* register call, active or deactivated: no version's item is written by
\* register more than once.
C38_RegisteredOnce ==
    \A v \in Versions : registrations[v] <= 1

\* the versions whose item is active
ActiveVersions == {v \in Versions : toolTable[v] = "active"}

\* C39: getLatestVersion returns the highest version that is active, never a
\* deactivated one, and None when no version is active.
C39_LatestIsHighestActive ==
    lastCall = "latest" =>
        latestResult = IF ActiveVersions = {} THEN NoVersion ELSE Highest(ActiveVersions)

\* C40: in the conversation history of a session, the user message appended
\* by a turn that produced a final text is immediately followed by the
\* assistant message of the same turn, for every interleaving of the turns
\* that share the session
C40_UserThenOwnAssistant ==
    \A i \in 1..Len(conversation) :
        LET e == conversation[i].from IN
        (/\ conversation[i].role = "user"
         /\ Truthy(execution[e].agentResponse)
         /\ xpc[e] \in {"storeInteraction", "returned"})
        => /\ i < Len(conversation)
           /\ conversation[i + 1].role = "assistant"
           /\ conversation[i + 1].from = e

====
